---------------------------- MODULE Spec2Model ----------------------------
(***************************************************************************)
(* Verification model of the Raspberry Pi Pico 2 W firmware collection.   *)
(* Each program of the repository is a separate firmware image; each gets *)
(* its own next-state relation and specification over its own variables.  *)
(***************************************************************************)
EXTENDS Integers, Sequences, FiniteSets, TLC

VARIABLES
    scanner,      \* the PortScanner object (pico_scanner)
    scan_log,     \* observer of the scanner: attempts made, connects that succeeded, report sent
    todo_state,   \* unified system: TO-DO app
    blink_state,  \* unified system: blink app
    clock_state,  \* unified system: clock app
    current_app,  \* unified system: the app process_command dispatches to
    uni_last,     \* observer of the unified system: the last command and what it wrote
    output_buf,   \* unified system: the lines in the output ring buffer not yet read
    web_body,     \* unified system: the body of the last GET /output or POST /cmd response
    serial_log,   \* unified system: the lines printed on the serial interface (stdio)
    t1, t2,       \* to-do-pico: task names
    d1, d2,       \* to-do-pico: done flags
    cnt,          \* to-do-pico: task count
    pico_last,    \* observer of to-do-pico: the last menu choice and what it printed
    os_version,   \* Shell OS: 1 is shell-based-pico-os, 2 is pico-shell-based-os
    main_pc,      \* Shell OS: main() is at "boot" or in shell_loop ("shell")
    wifi_connected,
    ntp_synced,
    processes,    \* Shell OS: processes[0 .. process_count-1]
    core1,        \* Shell OS: what core 1 executes
    task_pc,      \* Shell OS: where ntp_sync_task is in its loop
    task_syncs,   \* observer: ntp_sync_task has called sync_ntp_time
    http_server_running,
    http_server_pcb,
    active_connections,
    http_open,    \* Shell OS v2: accepted connections whose pcb is still open
    http_last,    \* observer of the HTTP server: the last callback and its answer
    clk_pc,       \* ASCII clock: where main() is
    current_time, \* ASCII clock: datetime_t current_time
    time_synced,  \* ASCII clock: bool time_synced
    wait_i,       \* ASCII clock: i of the loop that waits for the NTP reply
    ntp_state,    \* ASCII clock: ntp_state.pcb exists, and a request has been sent on it
    ntp_replies,  \* ASCII clock: datagrams delivered to ntp_recv so far
    led_log,      \* observer of the ASCII clock: the wifi_blink patterns emitted
    clk_path,     \* observer of the ASCII clock: the branch main() took to the clock loop
    clk_reply,    \* observer of the ASCII clock: the reply ntp_recv accepted, if any
    disp,         \* ASCII clock: what display_clock has read and printed so far
    first_shown,  \* observer of the ASCII clock: the first complete display
    ticks,        \* ASCII clock: seconds the clock loop has slept
    ws_listening, \* minimal web server: state->server_pcb listens
    ws_complete,  \* minimal web server: state->complete
    ws_conns,     \* minimal web server: the client connections (pcb, callbacks, data written)
    ws_last,      \* observer of the minimal web server: the last callback and what it returned
    ws_recv,      \* web server, observer: what the last tcp_server_recv wrote, acknowledged and freed
    blk_pc,       \* blink: where main() is
    blk_led,      \* blink: the onboard LED
    blk_ret,      \* blink: what main() returned
    blk_secs,     \* blink: seconds slept in the loop
    log_entries,  \* Shell OS: log_entries[0 .. MAX_LOG_ENTRIES-1]
    log_index,    \* Shell OS: log_index
    log_count,    \* Shell OS: log_count
    log_n,        \* observer of the log: calls of log_message so far
    log_printed,  \* observer of the log: what the last view_log printed, and after how many calls
    flash,        \* Shell OS: what the LittleFS region of the flash holds
    fs_mounted,   \* Shell OS: lfs is mounted
    fs_ops,       \* observer: the lfs calls of the last init_filesystem and their results
    cfg_file,     \* Shell OS: the bytes of wifi.cfg, or NoFile
    cfg_saved,    \* observer: the credentials typed for the write that made wifi.cfg, and
                  \*   whether a boot has read the file since
    wifi_ssid,    \* Shell OS: wifi_ssid
    wifi_password,\* Shell OS: wifi_password
    todos,        \* Shell OS: todos[0..1]
    todos_before, \* observer: todos at the last reset
    st_pc,        \* Shell OS: "boot" before boot_sequence has run, "shell" after
    tk_start,     \* observer of the clock: the day and second the clock loop started at
    rb,           \* unified system: output_buf (buffer, write_pos, read_pos, overflow)
    rb_n,         \* observer of the ring: bytes written so far
    rb_pending,   \* observer of the ring: the bytes written since the last read or clear
    rb_read,      \* observer of the ring: what the last output_read_all returned
    lg_pc,        \* Shell OS v2: where the shell is inside its call of log_message
    lg_reg,       \* Shell OS v2: the value the shell loaded from log_index or log_count
    lg_call       \* observer of the log: the message and the slot of the shell's call

scanVars == <<scanner, scan_log>>
uniVars == <<todo_state, blink_state, clock_state, current_app, uni_last, output_buf, web_body,
             serial_log>>
picoVars == <<t1, t2, d1, d2, cnt, pico_last>>

shellVars == <<os_version, main_pc, wifi_connected, ntp_synced, processes, core1,
               task_pc, task_syncs>>
httpVars == <<http_server_running, http_server_pcb, active_connections, http_open,
              http_last>>

clockVars == <<clk_pc, current_time, time_synced, wait_i, ntp_state, ntp_replies, led_log,
               clk_path, clk_reply, disp, first_shown, ticks>>

webVars == <<ws_listening, ws_complete, ws_conns, ws_last, ws_recv>>

blinkVars == <<blk_pc, blk_led, blk_ret, blk_secs>>

logVars == <<log_entries, log_index, log_count, log_n, log_printed>>

\* Shell OS: the log and the storage
storeVars == <<flash, fs_mounted, fs_ops, cfg_file, cfg_saved, wifi_ssid, wifi_password,
               todos, todos_before, st_pc>>

tickVars == <<tk_start>>

ringVars == <<rb, rb_n, rb_pending, rb_read>>

raceVars == <<lg_pc, lg_reg, lg_call>>

viewVars == <<logVars, storeVars, tickVars, ringVars, raceVars>>

vars == <<scanVars, uniVars, picoVars, shellVars, httpVars, clockVars, webVars, blinkVars,
          viewVars>>

(***************************************************************************)
(* Bounds of the model.                                                    *)
(***************************************************************************)
MaxClients == 2   \* TCP clients that may be connected to the scanner at once
MaxPending == 2   \* scan connections that may be outstanding at once
MaxSkip == 1      \* ports one handler may skip because tcp_new/tcp_connect failed at once
MaxOpen == 2      \* successful connects recorded in open_ports

(***************************************************************************)
(* pico_scanner: PortScanner                                               *)
(***************************************************************************)
UINT16 == 65536

\* uint16_t arithmetic of current_port++
Inc16(p) == (p + 1) % UINT16

\* The (start_port, end_port) pairs a client sends in "SCAN <ip> <start>-<end>".
ScanRanges == {<<0, 2>>, <<3, 1>>, <<1, 1>>, <<1, 2>>, <<1, 3>>, <<2, 3>>}

\* The one range of the wide specification: it ends at the last port.
WideRanges == {<<65535, 65535>>}

\* Ports of the target on which a TCP connect can succeed.
CanOpen == {2, 3}

NoReport == [sent |-> FALSE]

Clients == 1..MaxClients

RemoveAt(s, i) == SubSeq(s, 1, i - 1) \o SubSeq(s, i + 1, Len(s))

\* PortScanner() constructor
ScannerInit ==
    [ clients      |-> {},      \* accepted client connections (their recv callback is set)
      client_pcb   |-> 0,       \* 0 is nullptr
      current_port |-> 0,
      start_port   |-> 0,
      end_port     |-> 0,
      open_ports   |-> << >>,
      scanning     |-> FALSE,
      pending      |-> << >> ]  \* ports of the scan pcbs whose tcp_connect is not yet answered

ScanLogInit ==
    [ expect_port |-> 0,        \* the port the next attempt of this scan must be on
      order_ok    |-> TRUE,     \* every attempt of this scan was on expect_port
      succeeded   |-> << >>,    \* the ports whose connect succeeded in this scan
      report      |-> NoReport ]

\* finish_scan: the "Scan Complete" report
finish_scan(st) ==
    IF ~st.s.scanning THEN st
    ELSE [st EXCEPT !.s.scanning = FALSE,
                    !.g.report = [ sent      |-> TRUE,
                                   delivered |-> st.s.client_pcb # 0,
                                   ports     |-> st.s.end_port - st.s.start_port + 1,
                                   open      |-> st.s.open_ports,
                                   succeeded |-> st.g.succeeded,
                                   once_each |-> st.g.order_ok
                                                 /\ st.g.expect_port = st.s.end_port + 1 ]]

\* tcp_connect issued on current_port
Attempted(st) ==
    [st EXCEPT !.g.order_ok = @ /\ st.s.current_port = st.g.expect_port,
               !.g.expect_port = IF st.g.order_ok /\ st.s.current_port = @ THEN @ + 1 ELSE 0]

\* scan_next_port: the set of states it can leave, with at most `fuel` ports skipped
\* because tcp_new returned null or tcp_connect returned an error.
RECURSIVE scan_next_port(_, _)
scan_next_port(st, fuel) ==
    IF ~st.s.scanning \/ st.s.current_port > st.s.end_port
    THEN {finish_scan(st)}
    ELSE LET connecting == [Attempted(st) EXCEPT !.s.pending = Append(@, st.s.current_port)]
             no_pcb     == [st EXCEPT !.s.current_port = Inc16(@)]
             conn_err   == [Attempted(st) EXCEPT !.s.current_port = Inc16(@)]
         IN  (IF Len(st.s.pending) < MaxPending THEN {connecting} ELSE {})
             \cup (IF fuel > 0
                   THEN scan_next_port(no_pcb, fuel - 1) \cup scan_next_port(conn_err, fuel - 1)
                   ELSE {})

\* start_scan
start_scan(st) ==
    scan_next_port(
        [st EXCEPT !.s.scanning = TRUE,
                   !.s.current_port = st.s.start_port,
                   !.s.open_ports = << >>,
                   !.g = [ScanLogInit EXCEPT !.expect_port = st.s.start_port]],
        MaxSkip)

\* parse_command for "SCAN <ip> <start>-<end>": sscanf stores into the members first
parse_command(st, range) ==
    LET parsed == [st EXCEPT !.s.start_port = range[1], !.s.end_port = range[2]]
    IN  IF range[1] < 1 \/ range[2] > 65535 \/ range[1] > range[2]
        THEN {parsed}
        ELSE start_scan(parsed)

Here == [s |-> scanner, g |-> scan_log]

Becomes(st) ==
    scanner' = st.s /\ scan_log' = st.g /\ UNCHANGED <<viewVars, webVars, blinkVars, clockVars, uniVars, picoVars, shellVars, httpVars>>

\* accept_callback
AcceptCallback(c) ==
    /\ c \notin scanner.clients
    /\ scanner' = [scanner EXCEPT !.clients = @ \cup {c}, !.client_pcb = c]
    /\ UNCHANGED <<scan_log, viewVars, webVars, blinkVars, clockVars, uniVars, picoVars, shellVars, httpVars>>

\* recv_callback with p == NULL: the client closed
RecvClosed(c) ==
    /\ c \in scanner.clients
    /\ scanner' = [scanner EXCEPT !.clients = @ \ {c}, !.client_pcb = 0, !.scanning = FALSE]
    /\ UNCHANGED <<scan_log, viewVars, webVars, blinkVars, clockVars, uniVars, picoVars, shellVars, httpVars>>

\* recv_callback with a SCAN command
RecvScan(c, range) ==
    /\ c \in scanner.clients
    /\ \E st \in parse_command(Here, range) : Becomes(st)

\* scan_connected_callback for the i-th outstanding connection
ScanConnected(i) ==
    /\ i \in 1..Len(scanner.pending)
    /\ scanner.pending[i] \in CanOpen
    /\ Len(scanner.open_ports) < MaxOpen
    /\ LET st == [Here EXCEPT !.s.open_ports = Append(@, scanner.current_port),
                              !.g.succeeded = Append(@, scanner.pending[i]),
                              !.s.pending = RemoveAt(@, i),
                              !.s.current_port = Inc16(@)]
       IN  \E st2 \in scan_next_port(st, MaxSkip) : Becomes(st2)

\* scan_error_callback for the i-th outstanding connection
ScanError(i) ==
    /\ i \in 1..Len(scanner.pending)
    /\ LET st == [Here EXCEPT !.s.pending = RemoveAt(@, i),
                              !.s.current_port = Inc16(@)]
       IN  \E st2 \in scan_next_port(st, MaxSkip) : Becomes(st2)

InitScanner == scanner = ScannerInit /\ scan_log = ScanLogInit

NextScanner ==
    \/ \E c \in Clients : AcceptCallback(c)
    \/ \E c \in Clients : RecvClosed(c)
    \/ \E c \in Clients, r \in ScanRanges : RecvScan(c, r)
    \/ \E i \in 1..MaxPending : ScanConnected(i)
    \/ \E i \in 1..MaxPending : ScanError(i)

(***************************************************************************)
(* Task names: strings as sequences of characters                          *)
(***************************************************************************)
Min(a, b) == IF a < b THEN a ELSE b

\* strncpy(dst, src, n); dst[n] = 0  and  scanf("%14s", dst)
Take(str, n) == SubSeq(str, 1, Min(n, Len(str)))

TASK_CHARS == 14

EmptyStr == << >>

LongName == <<"a","b","c","d","e","f","g","h","i","j","k","l","m","n","o","p">>

\* The task names a user types: a short one, one of exactly 14 characters after
\* truncation, and none at all.
TaskInputs == {<<"m","i","l","k">>, LongName, EmptyStr}

\* The task numbers a user types (atoi of the argument; the character typed)
TaskNumbers == 0..3

(***************************************************************************)
(* Unified system: process_command and the TO-DO, blink and clock apps     *)
(***************************************************************************)
Apps == {"APP_TODO", "APP_BLINK", "APP_CLOCK"}

\* The arguments of "run" a user types.
RunArgs == {"todo", "blink", "clock", "snake", ""}

TodoInit == [task1 |-> EmptyStr, task2 |-> EmptyStr, done1 |-> FALSE, done2 |-> FALSE,
             count |-> 0, running |-> FALSE]

BlinkInit == [running |-> FALSE, led_state |-> FALSE, interval_ms |-> 500]

ClockInit == [running |-> FALSE]

\* main: what it has printed with printf when it enters its loop
BootPrinted == <<"Connecting to WiFi...", "Connected! IP: <ip>", "Server running on port 80",
                 "Terminal: http://<ip>/">>

\* main: the welcome message written with output_write before the loop
Welcome == <<"PICO 2 W UNIFIED SYSTEM v2.0", "System booted successfully.">>

\* output_write: the lines go into the ring buffer, and nowhere else
output_write(buf, lines) == buf \o lines

\* tcp_server_recv, POST /cmd: process_command(body) wrote `out` with
\* output_write/output_printf (the command menus left out); output_read_all then empties the
\* buffer into the response body
Said(cmd, out) ==
    /\ uni_last' = [cmd |-> cmd, out |-> out]
    /\ web_body' = output_write(output_buf, out)
    /\ output_buf' = << >>
    /\ UNCHANGED serial_log

\* todo_add without the "List full" branch: a third task overwrites the second
todo_add_Overwrite(ts, task) ==
    IF ts.count = 0
    THEN [ts EXCEPT !.task1 = Take(task, TASK_CHARS), !.done1 = FALSE, !.count = 1]
    ELSE [ts EXCEPT !.task2 = Take(task, TASK_CHARS), !.done2 = FALSE, !.count = 2]

\* todo_add
todo_add(ts, task) ==
    IF ts.count = 0
    THEN [ts EXCEPT !.task1 = Take(task, TASK_CHARS), !.done1 = FALSE, !.count = 1]
    ELSE IF ts.count = 1
    THEN [ts EXCEPT !.task2 = Take(task, TASK_CHARS), !.done2 = FALSE, !.count = 2]
    ELSE ts

todo_add_says(ts) ==
    IF ts.count = 0 THEN "Task 1 added."
    ELSE IF ts.count = 1 THEN "Task 2 added."
    ELSE "List full (max 2 tasks)."

\* todo_done
todo_done(ts, n) ==
    IF n = 1 /\ ts.count >= 1 THEN [ts EXCEPT !.done1 = TRUE]
    ELSE IF n = 2 /\ ts.count >= 2 THEN [ts EXCEPT !.done2 = TRUE]
    ELSE ts

todo_done_says(ts, n) ==
    IF n = 1 /\ ts.count >= 1 THEN "Task 1 marked done."
    ELSE IF n = 2 /\ ts.count >= 2 THEN "Task 2 marked done."
    ELSE "Invalid task number."

\* todo_del that forgets to move task 2 into slot 1
todo_del_NoShift(ts, n) ==
    IF n = 1 /\ ts.count >= 1 THEN [ts EXCEPT !.count = @ - 1]
    ELSE IF n = 2 /\ ts.count = 2 THEN [ts EXCEPT !.count = @ - 1]
    ELSE ts

\* todo_del
todo_del(ts, n) ==
    IF n = 1 /\ ts.count >= 1
    THEN IF ts.count = 2
         THEN [ts EXCEPT !.task1 = ts.task2, !.done1 = ts.done2, !.count = @ - 1]
         ELSE [ts EXCEPT !.count = @ - 1]
    ELSE IF n = 2 /\ ts.count = 2 THEN [ts EXCEPT !.count = @ - 1]
    ELSE ts

todo_del_says(ts, n) ==
    IF n = 1 /\ ts.count >= 1 THEN "Task 1 deleted."
    ELSE IF n = 2 /\ ts.count = 2 THEN "Task 2 deleted."
    ELSE "Invalid task number."

\* "run" and "stop" that forget todo_stop()
StoppedTodo_NoStop == todo_state

\* process_command: "if (current_app == APP_X && x_state.running) x_stop();"
StoppedTodo ==
    IF current_app = "APP_TODO" /\ todo_state.running
    THEN [todo_state EXCEPT !.running = FALSE] ELSE todo_state

StoppedBlink ==
    IF current_app = "APP_BLINK" /\ blink_state.running
    THEN [blink_state EXCEPT !.running = FALSE] ELSE blink_state

StoppedClock ==
    IF current_app = "APP_CLOCK" /\ clock_state.running
    THEN [clock_state EXCEPT !.running = FALSE] ELSE clock_state

StopSays ==
    (IF current_app = "APP_TODO" /\ todo_state.running
     THEN <<"TO-DO app stopped.">> ELSE << >>)
    \o (IF current_app = "APP_BLINK" /\ blink_state.running
        THEN <<"LED blink stopped.">> ELSE << >>)
    \o (IF current_app = "APP_CLOCK" /\ clock_state.running
        THEN <<"Clock stopped.">> ELSE << >>)

\* todo_init, blink_init, clock_init
todo_init(ts) == [ts EXCEPT !.running = TRUE]

blink_init(bs) == [running |-> TRUE, led_state |-> FALSE, interval_ms |-> 500]

clock_init(cs) == [cs EXCEPT !.running = TRUE]

\* process_command: "run <app>"
CmdRun(arg) ==
    /\ IF arg = ""
       THEN /\ UNCHANGED <<todo_state, blink_state, clock_state, current_app>>
            /\ Said("run", <<"Usage: run <app>">>)
       ELSE /\ todo_state' = IF arg = "todo" THEN todo_init(StoppedTodo) ELSE StoppedTodo
            /\ blink_state' = IF arg = "blink" THEN blink_init(StoppedBlink) ELSE StoppedBlink
            /\ clock_state' = IF arg = "clock" THEN clock_init(StoppedClock) ELSE StoppedClock
            /\ current_app' = IF arg = "todo" THEN "APP_TODO"
                              ELSE IF arg = "blink" THEN "APP_BLINK"
                              ELSE IF arg = "clock" THEN "APP_CLOCK"
                              ELSE current_app
            /\ Said("run", StopSays \o
                    (IF arg = "todo" THEN <<"=== TO-DO APP STARTED ===">>
                     ELSE IF arg = "blink" THEN <<"=== LED BLINK APP STARTED ===">>
                     ELSE IF arg = "clock" THEN <<"=== CLOCK APP STARTED ===">>
                     ELSE <<"Unknown app">>))
    /\ UNCHANGED <<viewVars, webVars, blinkVars, clockVars, scanVars, picoVars, shellVars, httpVars>>

\* process_command: "stop"
CmdStop ==
    /\ todo_state' = StoppedTodo
    /\ blink_state' = StoppedBlink
    /\ clock_state' = StoppedClock
    /\ current_app' = "APP_NONE"
    /\ Said("stop", IF StopSays = << >> THEN <<"No application running.">> ELSE StopSays)
    /\ UNCHANGED <<viewVars, webVars, blinkVars, clockVars, scanVars, picoVars, shellVars, httpVars>>

\* process_command: "reboot" (watchdog reset: the statics are initialised again)
CmdReboot ==
    /\ todo_state' = TodoInit
    /\ blink_state' = BlinkInit
    /\ clock_state' = ClockInit
    /\ current_app' = "APP_NONE"
    /\ Said("reboot", <<"Rebooting system...">>)
    /\ UNCHANGED <<viewVars, webVars, blinkVars, clockVars, scanVars, picoVars, shellVars, httpVars>>

Running(a) ==
    IF a = "APP_TODO" THEN todo_state.running
    ELSE IF a = "APP_BLINK" THEN blink_state.running
    ELSE clock_state.running

TodoActive == current_app = "APP_TODO" /\ todo_state.running

\* process_command: "add <task>"
CmdAdd(task) ==
    /\ IF ~TodoActive
       THEN UNCHANGED todo_state /\ Said("add", <<"Unknown command">>)
       ELSE IF Len(task) = 0
       THEN UNCHANGED todo_state /\ Said("add", <<"Usage: add <task_name>">>)
       ELSE todo_state' = todo_add(todo_state, task) /\ Said("add", <<todo_add_says(todo_state)>>)
    /\ UNCHANGED <<blink_state, clock_state, current_app, viewVars, webVars, blinkVars, clockVars, scanVars, picoVars, shellVars, httpVars>>

\* process_command: "done <n>"
CmdDone(n) ==
    /\ IF ~TodoActive
       THEN UNCHANGED todo_state /\ Said("done", <<"Unknown command">>)
       ELSE todo_state' = todo_done(todo_state, n) /\ Said("done", <<todo_done_says(todo_state, n)>>)
    /\ UNCHANGED <<blink_state, clock_state, current_app, viewVars, webVars, blinkVars, clockVars, scanVars, picoVars, shellVars, httpVars>>

\* process_command: "del <n>"
CmdDel(n) ==
    /\ IF ~TodoActive
       THEN UNCHANGED todo_state /\ Said("del", <<"Unknown command">>)
       ELSE todo_state' = todo_del(todo_state, n) /\ Said("del", <<todo_del_says(todo_state, n)>>)
    /\ UNCHANGED <<blink_state, clock_state, current_app, viewVars, webVars, blinkVars, clockVars, scanVars, picoVars, shellVars, httpVars>>

\* process_command: "list"
CmdList ==
    /\ Said("list", IF TodoActive THEN <<"=== TO-DO LIST ===">> ELSE <<"Unknown command">>)
    /\ UNCHANGED <<todo_state, blink_state, clock_state, current_app, viewVars, webVars, blinkVars, clockVars, scanVars, picoVars, shellVars, httpVars>>

(***************************************************************************)
(* Unified system: the blink app's "speed <ms>" command                    *)
(***************************************************************************)
INT_MAX == 2147483647
BLINK_MIN_MS == 50
BLINK_MAX_MS == 5000

\* Arguments a user gives to "speed": 50, 5000, 250, 49, 5001, abc, -100, nothing, 2^32 + 50
SpeedArgs == {<<"5", "0">>,
              <<"5", "0", "0", "0">>,
              <<"2", "5", "0">>,
              <<"4", "9">>,
              <<"5", "0", "0", "1">>,
              <<"a", "b", "c">>,
              <<"-", "1", "0", "0">>,
              EmptyStr,
              <<"4", "2", "9", "4", "9", "6", "7", "3", "4", "6">>}

DigitChars == <<"0", "1", "2", "3", "4", "5", "6", "7", "8", "9">>
IsDigit(c) == \E i \in 1..10 : DigitChars[i] = c
DigitVal(c) == (CHOOSE i \in 1..10 : DigitChars[i] = c) - 1

\* atoi (strtol): the digits from position i on, saturating when the value leaves long
RECURSIVE StrToL(_, _, _)
StrToL(str, i, acc) ==
    IF i > Len(str) \/ ~IsDigit(str[i]) THEN acc
    ELSE LET dv == DigitVal(str[i])
         IN  StrToL(str, i + 1,
                    IF acc.over \/ acc.v > (INT_MAX - dv) \div 10
                    THEN [v |-> INT_MAX, over |-> TRUE]
                    ELSE [v |-> acc.v * 10 + dv, over |-> FALSE])

\* atoi: optional sign, then digits; 0 when there are none
atoi(str) ==
    LET neg == Len(str) > 0 /\ str[1] = "-"
        pos == Len(str) > 0 /\ str[1] = "+"
        mag == StrToL(str, IF neg \/ pos THEN 2 ELSE 1, [v |-> 0, over |-> FALSE])
    IN  IF neg THEN (IF mag.over THEN -INT_MAX - 1 ELSE -mag.v) ELSE mag.v

\* uint32_t ms = atoi(arg1): the int converted to uint32_t, as <<high, low>> 16-bit halves
ToUint32(n) ==
    IF n >= 0 THEN <<n \div UINT16, n % UINT16>>
    ELSE <<(UINT16 - 1) - ((-(n + 1)) \div UINT16), (UINT16 - 1) - ((-(n + 1)) % UINT16)>>

\* blink_set_speed without the range check
blink_set_speed_NoCheck(bs, ms) == [bs EXCEPT !.interval_ms = ms[2]]

\* blink_set_speed
blink_set_speed(bs, ms) ==
    IF (ms[1] = 0 /\ ms[2] < BLINK_MIN_MS) \/ ms[1] > 0 \/ ms[2] > BLINK_MAX_MS
    THEN bs
    ELSE [bs EXCEPT !.interval_ms = ms[2]]

blink_set_speed_says(ms) ==
    IF (ms[1] = 0 /\ ms[2] < BLINK_MIN_MS) \/ ms[1] > 0 \/ ms[2] > BLINK_MAX_MS
    THEN "Speed must be between 50-5000ms."
    ELSE "Blink interval set."

BlinkActive == current_app = "APP_BLINK" /\ blink_state.running

\* process_command: "speed <ms>"
CmdSpeed(arg) ==
    /\ IF ~BlinkActive
       THEN UNCHANGED blink_state /\ Said("speed", <<"Unknown command">>)
       ELSE /\ blink_state' = blink_set_speed(blink_state, ToUint32(atoi(arg)))
            /\ Said("speed", <<blink_set_speed_says(ToUint32(atoi(arg)))>>)
    /\ UNCHANGED <<todo_state, clock_state, current_app, viewVars, webVars, blinkVars, clockVars, scanVars, picoVars, shellVars,
                   httpVars>>

\* process_command: "clear" (output_clear, then one line), answered like every POST /cmd
CmdClear ==
    /\ uni_last' = [cmd |-> "clear", out |-> <<"Terminal cleared.">>]
    /\ web_body' = output_write(<< >>, <<"Terminal cleared.">>)
    /\ output_buf' = << >>
    /\ UNCHANGED <<serial_log, todo_state, blink_state, clock_state, current_app, viewVars, webVars, blinkVars, clockVars,
                   scanVars, picoVars, shellVars, httpVars>>

\* tcp_server_recv, GET /output: output_read_all empties the buffer into the response body
GetOutput ==
    /\ web_body' = output_buf
    /\ output_buf' = << >>
    /\ UNCHANGED <<uni_last, serial_log, todo_state, blink_state, clock_state, current_app,
                   viewVars, webVars, blinkVars, clockVars, scanVars, picoVars, shellVars, httpVars>>

InitUnified ==
    /\ todo_state = TodoInit
    /\ blink_state = BlinkInit
    /\ clock_state = ClockInit
    /\ current_app = "APP_NONE"
    /\ uni_last = [cmd |-> "", out |-> Welcome]
    /\ output_buf = output_write(<< >>, Welcome)
    /\ web_body = << >>
    /\ serial_log = BootPrinted

NextUnified ==
    \/ \E arg \in RunArgs : CmdRun(arg)
    \/ CmdStop
    \/ CmdReboot
    \/ \E task \in TaskInputs : CmdAdd(task)
    \/ \E n \in TaskNumbers : CmdDone(n)
    \/ \E n \in TaskNumbers : CmdDel(n)
    \/ CmdList
    \/ \E arg \in SpeedArgs : CmdSpeed(arg)
    \/ CmdClear
    \/ GetOutput

(***************************************************************************)
(* to-do-pico: main loop                                                   *)
(***************************************************************************)
PicoSaid(c, out) == pico_last' = [cmd |-> c, out |-> out]

\* c == '1'
PicoList ==
    /\ PicoSaid("1", IF cnt = 0 THEN "None" ELSE "Tasks:")
    /\ UNCHANGED <<t1, t2, d1, d2, cnt, viewVars, webVars, blinkVars, clockVars, scanVars, uniVars, shellVars, httpVars>>

\* c == '2'
PicoAdd(task) ==
    /\ IF cnt = 0
       THEN /\ Len(task) > 0       \* scanf("%14s") waits for a non-empty word
            /\ t1' = Take(task, TASK_CHARS) /\ d1' = FALSE /\ cnt' = 1
            /\ UNCHANGED <<t2, d2>>
            /\ PicoSaid("2", "OK")
       ELSE IF cnt = 1
       THEN /\ Len(task) > 0
            /\ t2' = Take(task, TASK_CHARS) /\ d2' = FALSE /\ cnt' = 2
            /\ UNCHANGED <<t1, d1>>
            /\ PicoSaid("2", "OK")
       ELSE /\ UNCHANGED <<t1, t2, d1, d2, cnt>>
            /\ PicoSaid("2", "FULL")
    /\ UNCHANGED <<viewVars, webVars, blinkVars, clockVars, scanVars, uniVars, shellVars, httpVars>>

\* c == '3'
PicoDone(n) ==
    /\ IF n = 1 /\ cnt >= 1
       THEN d1' = TRUE /\ UNCHANGED d2 /\ PicoSaid("3", "OK")
       ELSE IF n = 2 /\ cnt >= 2
       THEN d2' = TRUE /\ UNCHANGED d1 /\ PicoSaid("3", "OK")
       ELSE UNCHANGED <<d1, d2>> /\ PicoSaid("3", "")
    /\ UNCHANGED <<t1, t2, cnt, viewVars, webVars, blinkVars, clockVars, scanVars, uniVars, shellVars, httpVars>>

\* c == '4'
PicoDel(n) ==
    /\ IF n = 1 /\ cnt >= 1
       THEN /\ IF cnt = 2 THEN t1' = t2 /\ d1' = d2 ELSE UNCHANGED <<t1, d1>>
            /\ cnt' = cnt - 1
            /\ PicoSaid("4", "OK")
       ELSE IF n = 2 /\ cnt = 2
       THEN cnt' = cnt - 1 /\ UNCHANGED <<t1, d1>> /\ PicoSaid("4", "OK")
       ELSE UNCHANGED <<t1, d1, cnt>> /\ PicoSaid("4", "")
    /\ UNCHANGED <<t2, d2, viewVars, webVars, blinkVars, clockVars, scanVars, uniVars, shellVars, httpVars>>

InitPico ==
    /\ t1 = EmptyStr /\ t2 = EmptyStr
    /\ d1 = FALSE /\ d2 = FALSE
    /\ cnt = 0
    /\ pico_last = [cmd |-> "", out |-> "READY"]

NextPico ==
    \/ PicoList
    \/ \E task \in TaskInputs : PicoAdd(task)
    \/ \E n \in TaskNumbers : PicoDone(n)
    \/ \E n \in TaskNumbers : PicoDel(n)

(***************************************************************************)
(* Shell OS (v1 shell-based-pico-os, v2 pico-shell-based-os): processes,  *)
(* the NTP sync task and WiFi                                              *)
(***************************************************************************)
MAX_PROCESSES == 8

NoProcesses == << >>

\* add_process: v2 launches func on core 1; v1 only records it
add_process(name, func) ==
    IF Len(processes) >= MAX_PROCESSES
    THEN UNCHANGED <<processes, core1, task_pc>>
    ELSE /\ processes' = Append(processes, [name |-> name, running |-> TRUE, func |-> func])
         /\ IF os_version = 2
            THEN core1' = func /\ task_pc' = "check"  \* multicore_reset_core1, multicore_launch_core1
            ELSE UNCHANGED <<core1, task_pc>>

\* main: boot_sequence, add_process("ntp_sync", ntp_sync_task), shell_loop
MainBoot ==
    /\ main_pc = "boot"
    /\ main_pc' = "shell"
    /\ add_process("ntp_sync", "ntp_sync_task")
    /\ UNCHANGED <<os_version, wifi_connected, ntp_synced, task_syncs,
                   viewVars, webVars, blinkVars, clockVars, scanVars, uniVars, picoVars, httpVars>>

\* connect_wifi: on success sync_ntp_time, whose reply (ntp_recv_callback,
\* set_current_time) may or may not arrive
CmdWifi(connects, replied) ==
    /\ main_pc = "shell"
    /\ wifi_connected' = connects
    /\ ntp_synced' = (ntp_synced \/ (connects /\ replied))
    /\ UNCHANGED <<os_version, main_pc, processes, core1, task_pc, task_syncs,
                   viewVars, webVars, blinkVars, clockVars, scanVars, uniVars, picoVars, httpVars>>

FirstRunning(name) ==
    LET hits == {i \in 1..Len(processes) : processes[i].running /\ processes[i].name = name}
    IN  IF hits = {} THEN 0 ELSE CHOOSE i \in hits : \A j \in hits : i <= j

\* stop_process ("stop <name>"): v2 resets core 1
CmdStopProcess(name) ==
    /\ main_pc = "shell"
    /\ LET i == FirstRunning(name)
       IN  IF i = 0
           THEN UNCHANGED <<processes, core1>>
           ELSE /\ processes' = [processes EXCEPT ![i].running = FALSE]
                /\ core1' = IF os_version = 2 THEN "idle" ELSE core1
    /\ UNCHANGED <<os_version, main_pc, wifi_connected, ntp_synced, task_pc, task_syncs,
                   viewVars, webVars, blinkVars, clockVars, scanVars, uniVars, picoVars, httpVars>>

\* ntp_sync_task on core 1: if (wifi_connected && ntp_synced) sleep an hour, else 5 s
TaskCheck ==
    /\ core1 = "ntp_sync_task"
    /\ task_pc = "check"
    /\ task_pc' = IF wifi_connected /\ ntp_synced THEN "sleep_hour" ELSE "sleep_5s"
    /\ UNCHANGED <<os_version, main_pc, wifi_connected, ntp_synced, processes, core1,
                   task_syncs, viewVars, webVars, blinkVars, clockVars, scanVars, uniVars, picoVars, httpVars>>

\* ntp_sync_task: the 5 s sleep ends
TaskRetry ==
    /\ core1 = "ntp_sync_task"
    /\ task_pc = "sleep_5s"
    /\ task_pc' = "check"
    /\ UNCHANGED <<os_version, main_pc, wifi_connected, ntp_synced, processes, core1,
                   task_syncs, viewVars, webVars, blinkVars, clockVars, scanVars, uniVars, picoVars, httpVars>>

\* ntp_sync_task: the hour ends, sync_ntp_time()
TaskSync(replied) ==
    /\ core1 = "ntp_sync_task"
    /\ task_pc = "sleep_hour"
    /\ task_pc' = "check"
    /\ task_syncs' = TRUE
    /\ ntp_synced' = (ntp_synced \/ (wifi_connected /\ replied))
    /\ UNCHANGED <<os_version, main_pc, wifi_connected, processes, core1,
                   viewVars, webVars, blinkVars, clockVars, scanVars, uniVars, picoVars, httpVars>>

InitShell(v) ==
    /\ os_version = v
    /\ main_pc = "boot"
    /\ wifi_connected = FALSE
    /\ ntp_synced = FALSE
    /\ processes = NoProcesses
    /\ core1 = "idle"
    /\ task_pc = "check"
    /\ task_syncs = FALSE

\* Process names a user gives to "stop".
StopNames == {"ntp_sync", "web"}

NextShell ==
    \/ MainBoot
    \/ \E connects \in BOOLEAN, replied \in BOOLEAN : CmdWifi(connects, replied)
    \/ \E name \in StopNames : CmdStopProcess(name)
    \/ TaskCheck
    \/ TaskRetry
    \/ \E replied \in BOOLEAN : TaskSync(replied)

(***************************************************************************)
(* Shell OS v2: the HTTP server                                            *)
(***************************************************************************)
MAX_HTTP_CONNECTIONS == 4

MaxHttpConns == 5   \* connections the TCP stack can hold open at once

HttpConns == 1..MaxHttpConns

Slash == <<"/">>

WebPrefix == <<"/", "w", "e", "b">>

IndexFile == <<"/", "w", "e", "b", "/", "i", "n", "d", "e", "x", ".", "h", "t", "m", "l">>

\* The files of the LittleFS volume (absolute names).
FsFiles == { <<"/", "w", "e", "b", "/", "i", "n", "d", "e", "x", ".", "h", "t", "m", "l">>,
             <<"/", "w", "e", "b", "/", "s", "t", "y", "l", "e", ".", "c", "s", "s">>,
             <<"/", "w", "i", "f", "i", ".", "c", "f", "g">> }

\* The paths clients ask for in "GET <path> HTTP/1.1".
RequestPaths == { Slash,
                  <<"/", "s", "t", "y", "l", "e", ".", "c", "s", "s">>,
                  <<"/", "n", "o", "p", "e">>,
                  <<"/", ".", ".", "/", "w", "i", "f", "i", ".", "c", "f", "g">> }

RequestMethods == {"GET", "POST"}

\* The names of a path: the maximal runs of characters other than '/'.
RECURSIVE PathNames(_)
PathNames(path) ==
    IF path = << >> THEN << >>
    ELSE LET rest == PathNames(Tail(path))
         IN  IF Head(path) = "/" THEN
                 IF rest # << >> /\ Head(rest) = << >> THEN rest ELSE << << >> >> \o rest
             ELSE IF rest = << >> THEN << <<Head(path)>> >>
             ELSE << <<Head(path)>> \o Head(rest) >> \o Tail(rest)

\* LittleFS name lookup: '.' is skipped, '..' cancels the name before it (and is
\* skipped at the root).
RECURSIVE Resolve(_, _)
Resolve(names, stack) ==
    IF names = << >> THEN stack
    ELSE LET n == Head(names)
         IN  IF n = << >> \/ n = <<".">> THEN Resolve(Tail(names), stack)
             ELSE IF n = <<".", ".">>
             THEN Resolve(Tail(names),
                          IF stack = << >> THEN stack ELSE SubSeq(stack, 1, Len(stack) - 1))
             ELSE Resolve(Tail(names), Append(stack, n))

RECURSIVE JoinNames(_)
JoinNames(names) ==
    IF names = << >> THEN << >> ELSE Slash \o Head(names) \o JoinNames(Tail(names))

\* lfs_file_open(&lfs, &file, filepath, LFS_O_RDONLY): the file the name denotes
lfs_lookup(filepath) == JoinNames(Resolve(PathNames(filepath), << >>))

\* http_recv_callback: "Map URL to file"
UrlToFile(path) == IF path = Slash THEN IndexFile ELSE WebPrefix \o path

\* send_file_response: status and the file whose content is sent
send_file_response(filepath) ==
    IF lfs_lookup(filepath) \in FsFiles
    THEN [status |-> 200, file |-> lfs_lookup(filepath)]
    ELSE [status |-> 404, file |-> << >>]

HttpSaid(ev, path, filepath, answer) ==
    http_last' = [event |-> ev, path |-> path, filepath |-> filepath,
                  status |-> answer.status, file |-> answer.file]

NoAnswer == [status |-> 0, file |-> << >>]

\* start_http_server ("localhost"); tcp_new or tcp_bind may fail
CmdLocalhost(ok) ==
    /\ main_pc = "shell"
    /\ os_version = 2
    /\ IF ~wifi_connected \/ http_server_running \/ ~ok
       THEN UNCHANGED <<http_server_running, http_server_pcb, active_connections>>
       ELSE /\ http_server_running' = TRUE
            /\ http_server_pcb' = 1
            /\ active_connections' = 0
    /\ HttpSaid("localhost", << >>, << >>, NoAnswer)
    /\ UNCHANGED <<http_open, viewVars, webVars, blinkVars, clockVars, scanVars, uniVars, picoVars, shellVars>>

\* stop_http_server ("stopweb")
CmdStopweb ==
    /\ main_pc = "shell"
    /\ os_version = 2
    /\ IF ~http_server_running
       THEN UNCHANGED <<http_server_running, http_server_pcb, active_connections>>
       ELSE /\ http_server_pcb' = 0
            /\ http_server_running' = FALSE
            /\ active_connections' = 0
    /\ HttpSaid("stopweb", << >>, << >>, NoAnswer)
    /\ UNCHANGED <<http_open, viewVars, webVars, blinkVars, clockVars, scanVars, uniVars, picoVars, shellVars>>

\* http_accept_callback
HttpAccept(c) ==
    /\ http_server_pcb # 0
    /\ c \notin http_open
    /\ IF active_connections >= MAX_HTTP_CONNECTIONS
       THEN /\ UNCHANGED <<active_connections, http_open>>          \* tcp_abort(newpcb)
            /\ HttpSaid("abort", << >>, << >>, NoAnswer)
       ELSE /\ active_connections' = active_connections + 1
            /\ http_open' = http_open \cup {c}
            /\ HttpSaid("accept", << >>, << >>, NoAnswer)
    /\ UNCHANGED <<http_server_running, http_server_pcb, viewVars, webVars, blinkVars, clockVars, scanVars, uniVars, picoVars,
                   shellVars>>

\* http_recv_callback with p == NULL: the client closed
HttpRecvClosed(c) ==
    /\ c \in http_open
    /\ active_connections' = active_connections - 1
    /\ http_open' = http_open \ {c}
    /\ HttpSaid("closed", << >>, << >>, NoAnswer)
    /\ UNCHANGED <<http_server_running, http_server_pcb, viewVars, webVars, blinkVars, clockVars, scanVars, uniVars, picoVars,
                   shellVars>>

\* http_recv_callback with a request "<method> <path> HTTP/1.1"
HttpRecvRequest(c, method, path) ==
    /\ c \in http_open
    /\ IF method # "GET"
       THEN HttpSaid("request", path, << >>, [status |-> 405, file |-> << >>])
       ELSE HttpSaid("request", path, UrlToFile(path), send_file_response(UrlToFile(path)))
    /\ active_connections' = active_connections - 1
    /\ http_open' = http_open \ {c}
    /\ UNCHANGED <<http_server_running, http_server_pcb, viewVars, webVars, blinkVars, clockVars, scanVars, uniVars, picoVars,
                   shellVars>>

\* http_err_callback: the stack has freed the pcb
HttpErr(c) ==
    /\ c \in http_open
    /\ active_connections' = IF active_connections > 0 THEN active_connections - 1
                             ELSE active_connections
    /\ http_open' = http_open \ {c}
    /\ HttpSaid("error", << >>, << >>, NoAnswer)
    /\ UNCHANGED <<http_server_running, http_server_pcb, viewVars, webVars, blinkVars, clockVars, scanVars, uniVars, picoVars,
                   shellVars>>

InitHttp ==
    /\ http_server_running = FALSE
    /\ http_server_pcb = 0
    /\ active_connections = 0
    /\ http_open = {}
    /\ http_last = [event |-> "", path |-> << >>, filepath |-> << >>,
                    status |-> 0, file |-> << >>]

NextHttp ==
    \/ \E ok \in BOOLEAN : CmdLocalhost(ok)
    \/ CmdStopweb
    \/ \E c \in HttpConns : HttpAccept(c)
    \/ \E c \in HttpConns : HttpRecvClosed(c)
    \/ \E c \in HttpConns, m \in RequestMethods, path \in RequestPaths :
          HttpRecvRequest(c, m, path)
    \/ \E c \in HttpConns : HttpErr(c)

(***************************************************************************)
(* ASCII clock (src/ascii_clock/ascii_clock.cpp).                          *)
(* main() runs step by step; ntp_recv is an lwIP callback that the radio   *)
(* driver's interrupt runs between any two steps of main() once the        *)
(* request has been sent.                                                  *)
(***************************************************************************)
MaxTicks == 2
MaxReplies == 1

WAIT_LOOPS == 50
\* NTP_DELTA = 2208988800 = NTP_DELTA_HI * 65536 + NTP_DELTA_LO
NTP_DELTA_HI == 33706
NTP_DELTA_LO == 32384
UK_TIMEZONE_OFFSET == 0
SECS_PER_DAY == 86400

\* tx_ts[0] of the replies, as the two 16-bit halves ntohl puts together:
\* 2026-03-15 12:00:00 and 2026-12-31 23:59:59 (UTC)
ReplyStamps == {<<60769, 7616>>, <<61153, 27391>>}

datetime_t(y, m, d, w, h, mi, s) ==
    [year |-> y, month |-> m, day |-> d, dotw |-> w, hour |-> h, min |-> mi, sec |-> s]

is_leap_year(y) == (y % 4 = 0 /\ y % 100 # 0) \/ (y % 400 = 0)

days_in_month(m, y) ==
    IF m = 2 /\ is_leap_year(y) THEN 29
    ELSE <<31, 28, 31, 30, 31, 30, 31, 31, 30, 31, 30, 31>>[m]

\* init_time
init_time(y, m, d, w, h, mi, s) == datetime_t(y, m, d, w, h, mi, s)

\* gmtime: the year and the day of the year of day number d counted from 1 January of y
RECURSIVE GmYear(_, _)
GmYear(y, d) ==
    LET n == IF is_leap_year(y) THEN 366 ELSE 365
    IN  IF d >= n THEN GmYear(y + 1, d - n) ELSE <<y, d>>

\* gmtime: the month and the day of the month of day d (from 0) of year y
RECURSIVE GmMonth(_, _, _)
GmMonth(m, y, d) ==
    IF d >= days_in_month(m, y) THEN GmMonth(m + 1, y, d - days_in_month(m, y))
    ELSE <<m, d + 1>>

\* gmtime: second rem of day number days, counted from 1 January 1970, a Thursday
gm_datetime(days, rem) ==
    LET yd == GmYear(1970, days)
        md == GmMonth(1, yd[1], yd[2])
    IN  datetime_t(yd[1], md[1], md[2], (4 + days) % 7,
                   rem \div 3600, (rem % 3600) \div 60, rem % 60)

\* timestamp_to_datetime, for t >= 0
timestamp_to_datetime(t) == gm_datetime(t \div SECS_PER_DAY, t % SECS_PER_DAY)

\* ntp_recv: time_t unix_time = sec1900 - NTP_DELTA + UK_TIMEZONE_OFFSET
UnixTime(stamp) ==
    (stamp[1] - NTP_DELTA_HI) * UINT16 + (stamp[2] - NTP_DELTA_LO) + UK_TIMEZONE_OFFSET

\* pc and ticks: where main() was and how often it had slept when the reply
\* came; at: the reply's time as <<day, second of the day>>
NoReply == [arrived |-> FALSE, time |-> datetime_t(0, 0, 0, 0, 0, 0, 0),
            pc |-> "", ticks |-> 0, at |-> <<0, 0>>]

\* display_clock reads the fields of current_time in this order, then time_synced
DisplayOrder == <<"hour", "min", "sec", "year", "month", "day", "dotw">>
Blank == [n |-> 0, time |-> datetime_t(0, 0, 0, 0, 0, 0, 0), source |-> ""]

\* main: the branch taken and where it goes next
Goto(label, path) == clk_pc' = label /\ clk_path' = path

\* wifi_blink(times, on_ms, off_ms)
wifi_blink(times, on_ms, off_ms) == led_log' = Append(led_log, <<times, on_ms, off_ms>>)

\* main: if (cyw43_arch_init()) goto manual_time; ... wifi_blink(2, 300, 300)
ClkArchInit(ok) ==
    /\ clk_pc = "arch_init"
    /\ IF ok THEN wifi_blink(2, 300, 300) /\ Goto("connect", clk_path)
             ELSE UNCHANGED led_log /\ Goto("manual_time", "chip_failed")
    /\ UNCHANGED <<current_time, time_synced, wait_i, ntp_state, ntp_replies, clk_reply, disp,
                   first_shown, ticks, viewVars, webVars, blinkVars, scanVars, uniVars, picoVars, shellVars, httpVars>>

\* main: wifi_result = cyw43_arch_wifi_connect_timeout_ms(...)
ClkConnect(wifi_result) ==
    /\ clk_pc = "connect"
    /\ IF wifi_result # 0
       THEN wifi_blink(3, 500, 300) /\ Goto("manual_time", "wifi_failed")
       ELSE wifi_blink(5, 80, 80) /\ Goto("ntp_init", clk_path)
    /\ UNCHANGED <<current_time, time_synced, wait_i, ntp_state, ntp_replies, clk_reply, disp,
                   first_shown, ticks, viewVars, webVars, blinkVars, scanVars, uniVars, picoVars, shellVars, httpVars>>

\* main: if (!ntp_init()) goto manual_time;   (udp_new gives a pcb or NULL)
ClkNtpInit(pcb) ==
    /\ clk_pc = "ntp_init"
    /\ IF pcb THEN ntp_state' = [ntp_state EXCEPT !.pcb = TRUE] /\ Goto("ntp_request", clk_path)
              ELSE UNCHANGED ntp_state /\ Goto("manual_time", "no_socket")
    /\ UNCHANGED <<current_time, time_synced, wait_i, ntp_replies, led_log, clk_reply, disp,
                   first_shown, ticks, viewVars, webVars, blinkVars, scanVars, uniVars, picoVars, shellVars, httpVars>>

\* main: sleep_ms(2000); ntp_request();
ClkNtpRequest ==
    /\ clk_pc = "ntp_request"
    /\ ntp_state' = [ntp_state EXCEPT !.sent = TRUE]
    /\ wait_i' = 0
    /\ Goto("wait", clk_path)
    /\ UNCHANGED <<current_time, time_synced, ntp_replies, led_log, clk_reply, disp,
                   first_shown, ticks, viewVars, webVars, blinkVars, scanVars, uniVars, picoVars, shellVars, httpVars>>

\* main: for (int i = 0; i < 50 && !time_synced; i++) sleep_ms(100);
ClkWait ==
    /\ clk_pc = "wait"
    /\ IF wait_i < WAIT_LOOPS /\ ~time_synced
       THEN wait_i' = wait_i + 1 /\ UNCHANGED <<clk_pc, clk_path>>
       ELSE UNCHANGED wait_i /\ Goto("check", clk_path)
    /\ UNCHANGED <<current_time, time_synced, ntp_state, ntp_replies, led_log, clk_reply, disp,
                   first_shown, ticks, viewVars, webVars, blinkVars, scanVars, uniVars, picoVars, shellVars, httpVars>>

\* main: if (!time_synced) goto manual_time; goto start_clock;
ClkCheck ==
    /\ clk_pc = "check"
    /\ IF ~time_synced THEN Goto("manual_time", "timeout") ELSE Goto("start_clock", "synced")
    /\ UNCHANGED <<current_time, time_synced, wait_i, ntp_state, ntp_replies, led_log, clk_reply,
                   disp, first_shown, ticks, viewVars, webVars, blinkVars, scanVars, uniVars, picoVars, shellVars, httpVars>>

\* main: manual_time: init_time(2026,2,1,6,10,48,0);
ManualTime == init_time(2026, 2, 1, 6, 10, 48, 0)

ClkManualTime ==
    /\ clk_pc = "manual_time"
    /\ current_time' = ManualTime
    /\ Goto("start_clock", clk_path)
    /\ UNCHANGED <<time_synced, wait_i, ntp_state, ntp_replies, led_log, clk_reply, disp,
                   first_shown, ticks, viewVars, webVars, blinkVars, scanVars, uniVars, picoVars, shellVars, httpVars>>

\* main: start_clock: clear_screen(); last = get_absolute_time();
ClkStartClock ==
    /\ clk_pc = "start_clock"
    /\ Goto("display", clk_path)
    /\ UNCHANGED <<current_time, time_synced, wait_i, ntp_state, ntp_replies, led_log, clk_reply,
                   disp, first_shown, ticks, viewVars, webVars, blinkVars, scanVars, uniVars, picoVars, shellVars, httpVars>>

\* display_clock: the next read of a field of current_time (lines 171-173, 186-190)
DisplayRead ==
    /\ clk_pc = "display"
    /\ disp.n < Len(DisplayOrder)
    /\ LET f == DisplayOrder[disp.n + 1]
       IN  disp' = [disp EXCEPT !.n = disp.n + 1, !.time[f] = current_time[f]]
    /\ UNCHANGED <<clk_pc, current_time, time_synced, wait_i, ntp_state, ntp_replies, led_log,
                   clk_path, clk_reply, first_shown, ticks,
                   viewVars, webVars, blinkVars, scanVars, uniVars, picoVars, shellVars, httpVars>>

\* display_clock: printf(time_synced ? "Time source: NTP\n" : "Time source: MANUAL\n")
DisplaySource ==
    /\ clk_pc = "display"
    /\ disp.n = Len(DisplayOrder)
    /\ LET shown == [disp EXCEPT !.source = IF time_synced THEN "NTP" ELSE "MANUAL"]
       IN  /\ disp' = shown
           /\ first_shown' = IF first_shown.done THEN first_shown
                             ELSE [done |-> TRUE, time |-> shown.time, source |-> shown.source]
    /\ clk_pc' = "sleep"
    /\ UNCHANGED <<current_time, time_synced, wait_i, ntp_state, ntp_replies, led_log, clk_path,
                   clk_reply, ticks, viewVars, webVars, blinkVars, scanVars, uniVars, picoVars, shellVars, httpVars>>

\* main: sleep_until(delayed_by_ms(last, 1000)); last = get_absolute_time(); tick_time();
ClkSleep ==
    /\ clk_pc = "sleep"
    /\ ticks < MaxTicks
    /\ ticks' = ticks + 1
    /\ clk_pc' = "tick_sec"
    /\ UNCHANGED <<current_time, time_synced, wait_i, ntp_state, ntp_replies, led_log, clk_path,
                   clk_reply, disp, first_shown, viewVars, webVars, blinkVars, scanVars, uniVars, picoVars, shellVars,
                   httpVars>>

\* tick_time returns: the loop calls display_clock again
TickReturn(t) == current_time' = t /\ clk_pc' = "display" /\ disp' = Blank

\* tick_time goes on to its next statement
TickOn(t, label) == current_time' = t /\ clk_pc' = label /\ UNCHANGED disp

tick_time_DayAtLeast ==
    LET t == current_time
    IN  CASE clk_pc = "tick_sec" ->
                IF t.sec + 1 < 60 THEN TickReturn([t EXCEPT !.sec = t.sec + 1])
                                  ELSE TickOn([t EXCEPT !.sec = t.sec + 1], "tick_sec0")
          [] clk_pc = "tick_sec0" -> TickOn([t EXCEPT !.sec = 0], "tick_min")
          [] clk_pc = "tick_min" ->
                IF t.min + 1 < 60 THEN TickReturn([t EXCEPT !.min = t.min + 1])
                                  ELSE TickOn([t EXCEPT !.min = t.min + 1], "tick_min0")
          [] clk_pc = "tick_min0" -> TickOn([t EXCEPT !.min = 0], "tick_hour")
          [] clk_pc = "tick_hour" ->
                IF t.hour + 1 < 24 THEN TickReturn([t EXCEPT !.hour = t.hour + 1])
                                   ELSE TickOn([t EXCEPT !.hour = t.hour + 1], "tick_hour0")
          [] clk_pc = "tick_hour0" -> TickOn([t EXCEPT !.hour = 0], "tick_day")
          [] clk_pc = "tick_day" -> TickOn([t EXCEPT !.day = t.day + 1], "tick_dotw")
          [] clk_pc = "tick_dotw" -> TickOn([t EXCEPT !.dotw = (t.dotw + 1) % 7], "tick_dim")
          [] clk_pc = "tick_dim" ->
                IF t.day >= days_in_month(t.month, t.year) THEN TickOn(t, "tick_day1")
                                                          ELSE TickReturn(t)
          [] clk_pc = "tick_day1" -> TickOn([t EXCEPT !.day = 1], "tick_month")
          [] clk_pc = "tick_month" ->
                IF t.month + 1 > 12 THEN TickOn([t EXCEPT !.month = t.month + 1], "tick_month1")
                                    ELSE TickReturn([t EXCEPT !.month = t.month + 1])
          [] clk_pc = "tick_month1" -> TickOn([t EXCEPT !.month = 1], "tick_year")
          [] clk_pc = "tick_year" -> TickReturn([t EXCEPT !.year = t.year + 1])

\* tick_time, one statement (one store to current_time) at a time
tick_time ==
    LET t == current_time
    IN  CASE clk_pc = "tick_sec" ->          \* if (++current_time.sec < 60) return;
                IF t.sec + 1 < 60 THEN TickReturn([t EXCEPT !.sec = t.sec + 1])
                                  ELSE TickOn([t EXCEPT !.sec = t.sec + 1], "tick_sec0")
          [] clk_pc = "tick_sec0" -> TickOn([t EXCEPT !.sec = 0], "tick_min")
          [] clk_pc = "tick_min" ->          \* if (++current_time.min < 60) return;
                IF t.min + 1 < 60 THEN TickReturn([t EXCEPT !.min = t.min + 1])
                                  ELSE TickOn([t EXCEPT !.min = t.min + 1], "tick_min0")
          [] clk_pc = "tick_min0" -> TickOn([t EXCEPT !.min = 0], "tick_hour")
          [] clk_pc = "tick_hour" ->         \* if (++current_time.hour < 24) return;
                IF t.hour + 1 < 24 THEN TickReturn([t EXCEPT !.hour = t.hour + 1])
                                   ELSE TickOn([t EXCEPT !.hour = t.hour + 1], "tick_hour0")
          [] clk_pc = "tick_hour0" -> TickOn([t EXCEPT !.hour = 0], "tick_day")
          [] clk_pc = "tick_day" -> TickOn([t EXCEPT !.day = t.day + 1], "tick_dotw")
          [] clk_pc = "tick_dotw" -> TickOn([t EXCEPT !.dotw = (t.dotw + 1) % 7], "tick_dim")
          [] clk_pc = "tick_dim" ->          \* if (day > days_in_month(month, year))
                IF t.day > days_in_month(t.month, t.year) THEN TickOn(t, "tick_day1")
                                                          ELSE TickReturn(t)
          [] clk_pc = "tick_day1" -> TickOn([t EXCEPT !.day = 1], "tick_month")
          [] clk_pc = "tick_month" ->        \* if (++current_time.month > 12)
                IF t.month + 1 > 12 THEN TickOn([t EXCEPT !.month = t.month + 1], "tick_month1")
                                    ELSE TickReturn([t EXCEPT !.month = t.month + 1])
          [] clk_pc = "tick_month1" -> TickOn([t EXCEPT !.month = 1], "tick_year")
          [] clk_pc = "tick_year" -> TickReturn([t EXCEPT !.year = t.year + 1])

TickLabels == {"tick_sec", "tick_sec0", "tick_min", "tick_min0", "tick_hour", "tick_hour0",
               "tick_day", "tick_dotw", "tick_dim", "tick_day1", "tick_month", "tick_month1",
               "tick_year"}

ClkTick ==
    /\ clk_pc \in TickLabels
    /\ tick_time
    /\ UNCHANGED <<time_synced, wait_i, ntp_state, ntp_replies, led_log, clk_path, clk_reply,
                   first_shown, ticks, viewVars, webVars, blinkVars, scanVars, uniVars, picoVars, shellVars, httpVars>>

\* ntp_recv, called from the network stack between two steps of main()
NtpRecv(stamp, len_ok) ==
    /\ ntp_state.sent
    /\ ntp_replies < MaxReplies
    /\ ntp_replies' = ntp_replies + 1
    /\ IF len_ok                                  \* p->tot_len == sizeof(ntp_packet_t)
       THEN /\ current_time' = timestamp_to_datetime(UnixTime(stamp))
            /\ time_synced' = TRUE
            /\ clk_reply' = [arrived |-> TRUE, time |-> timestamp_to_datetime(UnixTime(stamp)),
                              pc |-> clk_pc, ticks |-> ticks,
                              at |-> <<UnixTime(stamp) \div SECS_PER_DAY,
                                       UnixTime(stamp) % SECS_PER_DAY>>]
       ELSE UNCHANGED <<current_time, time_synced, clk_reply>>
    /\ UNCHANGED <<clk_pc, wait_i, ntp_state, led_log, clk_path, disp, first_shown, ticks,
                   viewVars, webVars, blinkVars, scanVars, uniVars, picoVars, shellVars, httpVars>>

NoStart == <<0, 0>>

InitClock ==
    /\ clk_pc = "arch_init"
    /\ current_time = datetime_t(0, 0, 0, 0, 0, 0, 0)
    /\ time_synced = FALSE
    /\ wait_i = 0
    /\ ntp_state = [pcb |-> FALSE, sent |-> FALSE]
    /\ ntp_replies = 0
    /\ led_log = << >>
    /\ clk_path = ""
    /\ clk_reply = NoReply
    /\ disp = Blank
    /\ first_shown = [done |-> FALSE, time |-> Blank.time, source |-> ""]
    /\ ticks = 0
    /\ tk_start = NoStart

NextClock ==
    \/ \E ok \in BOOLEAN : ClkArchInit(ok)
    \/ \E wifi_result \in {0, -1} : ClkConnect(wifi_result)
    \/ \E pcb \in BOOLEAN : ClkNtpInit(pcb)
    \/ ClkNtpRequest
    \/ ClkWait
    \/ ClkCheck
    \/ ClkManualTime
    \/ ClkStartClock
    \/ DisplayRead
    \/ DisplaySource
    \/ ClkSleep
    \/ ClkTick
    \/ \E stamp \in ReplyStamps, len_ok \in BOOLEAN : NtpRecv(stamp, len_ok)

(***************************************************************************)
(* Minimal web server (src/pico_webserver/pico_webserver.cpp).             *)
(* lwIP calls tcp_server_accept, tcp_server_recv and tcp_server_sent; no   *)
(* error callback is registered.                                           *)
(***************************************************************************)
MaxWsClients == 2

WsClients == 1..MaxWsClients

\* A client slot with no pcb
NoConn == [pcb |-> "none", recv |-> FALSE, sent |-> FALSE, written |-> FALSE]

\* What a received segment can be: no segment (the client closed), one that starts with
\* GET, another one, an empty one, one of the two bytes "GE"
Segments == {"closed", "GET", "POST", "empty", "GE"}

\* the bytes of a segment (p->payload, p->tot_len of them)
Payload(segment) ==
    CASE segment = "GET"  -> <<"G", "E", "T", " ", "/">>
      [] segment = "POST" -> <<"P", "O", "S", "T", " ", "/">>
      [] segment = "GE"   -> <<"G", "E">>
      [] OTHER            -> << >>

\* what the pbuf's buffer can hold behind the received bytes: whatever an
\* earlier packet left there
StaleBytes == {"T", "X"}

HTTP_GET == <<"G", "E", "T">>

\* html_content, cut down to a heading; 240, 159, 159, 162 are the four bytes
\* of the one character of the page that is not ASCII
html_content == <<"<", "h", "1", ">", 240, 159, 159, 162, "<", "/", "h", "1", ">">>

\* snprintf(.., HTTP_RESPONSE_HEADERS, status, content_len), piece by piece
HTTP_RESPONSE_HEADERS(status, content_len) ==
    <<"HTTP/1.1 ", status, " OK\n", "Content-Length: ", content_len, "\n",
      "Content-Type: text/html; charset=utf-8\n", "Connection: close\n", "\n">>

NothingReceived == [wrote |-> << >>, recved |-> 0, freed |-> 0]

\* strncmp(HTTP_GET, (char*)p->payload, strlen(HTTP_GET)) == 0: three bytes of
\* the buffer are compared however many were received
StartsWithGet(payload, stale) ==
    SubSeq(payload \o <<stale, stale, stale>>, 1, Len(HTTP_GET)) = HTTP_GET

\* tcp_server_recv with a pbuf: the response is built and written when the
\* buffer starts with GET and malloc and tcp_write succeed (sendable);
\* tcp_recved when tot_len > 0; pbuf_free
tcp_server_recv(payload, stale, sendable) ==
    [wrote  |-> IF Len(payload) > 0 /\ StartsWithGet(payload, stale) /\ sendable
                THEN HTTP_RESPONSE_HEADERS(200, Len(html_content)) \o html_content
                ELSE << >>,
     recved |-> Len(payload),
     freed  |-> 1]

WsSaid(ev, c, ret) == ws_last' = [event |-> ev, conn |-> c, ret |-> ret]

\* tcp_close_client_connection that leaves the callbacks registered and the pcb open
tcp_close_client_connection_Keep(conn, close_ok) == conn

\* tcp_close_client_connection: the callbacks are unregistered, then tcp_close, and
\* tcp_abort when tcp_close fails
tcp_close_client_connection(conn, close_ok) ==
    [conn EXCEPT !.recv = FALSE, !.sent = FALSE,
                 !.pcb = IF close_ok THEN "closed" ELSE "aborted"]

close_returns(close_ok) == IF close_ok THEN "ERR_OK" ELSE "ERR_ABRT"

\* main: everything up to tcp_server_open; on a failure main returns 1
WsMain(ok) ==
    /\ ~ws_listening
    /\ ws_last.event = "boot"
    /\ ws_listening' = ok
    /\ WsSaid("main", 0, IF ok THEN "Server running on port 80" ELSE "return 1")
    /\ UNCHANGED <<ws_recv, ws_complete, ws_conns, viewVars, blinkVars, clockVars, scanVars, uniVars, picoVars,
                   shellVars, httpVars>>

\* tcp_server_accept: err == ERR_OK and a client pcb
WsAccept(c) ==
    /\ ws_listening
    /\ ws_conns[c].pcb # "open"
    /\ ws_conns' = [ws_conns EXCEPT ![c] = [pcb |-> "open", recv |-> TRUE, sent |-> TRUE,
                                            written |-> FALSE]]
    /\ WsSaid("accept", c, "ERR_OK")
    /\ UNCHANGED <<ws_recv, ws_listening, ws_complete, viewVars, blinkVars, clockVars, scanVars, uniVars, picoVars,
                   shellVars, httpVars>>

\* tcp_server_accept: err != ERR_OK || client_pcb == NULL
WsAcceptFailed ==
    /\ ws_listening
    /\ WsSaid("accept", 0, "ERR_VAL")
    /\ UNCHANGED <<ws_recv, ws_listening, ws_complete, ws_conns, viewVars, blinkVars, clockVars, scanVars, uniVars,
                   picoVars, shellVars, httpVars>>

\* tcp_server_recv
WsRecv(c, segment, sendable, stale, close_ok) ==
    /\ ws_conns[c].pcb = "open" /\ ws_conns[c].recv
    /\ IF segment = "closed"                                       \* if (!p)
       THEN /\ ws_conns' = [ws_conns EXCEPT ![c] = tcp_close_client_connection(@, close_ok)]
            /\ ws_recv' = NothingReceived
            /\ WsSaid("recv", c, close_returns(close_ok))
       ELSE /\ ws_recv' = tcp_server_recv(Payload(segment), stale, sendable)
            /\ ws_conns' = [ws_conns EXCEPT ![c].written = @ \/ (ws_recv'.wrote # << >>)]
            /\ WsSaid("recv", c, "ERR_OK")
    /\ UNCHANGED <<ws_listening, ws_complete, viewVars, blinkVars, clockVars, scanVars, uniVars, picoVars,
                   shellVars, httpVars>>

\* tcp_server_sent: the stack reports that written data was acknowledged
WsSent(c, close_ok) ==
    /\ ws_conns[c].pcb = "open" /\ ws_conns[c].sent /\ ws_conns[c].written
    /\ ws_complete' = TRUE
    /\ ws_conns' = [ws_conns EXCEPT ![c] = tcp_close_client_connection(@, close_ok)]
    /\ WsSaid("sent", c, close_returns(close_ok))
    /\ UNCHANGED <<ws_recv, ws_listening, viewVars, blinkVars, clockVars, scanVars, uniVars, picoVars, shellVars,
                   httpVars>>

\* The client resets the connection: lwIP frees the pcb; no tcp_err callback is registered
WsReset(c) ==
    /\ ws_conns[c].pcb = "open"
    /\ ws_conns' = [ws_conns EXCEPT ![c] = [@ EXCEPT !.pcb = "reset"]]
    /\ WsSaid("reset", c, "")
    /\ UNCHANGED <<ws_recv, ws_listening, ws_complete, viewVars, blinkVars, clockVars, scanVars, uniVars, picoVars,
                   shellVars, httpVars>>

InitWeb ==
    /\ ws_listening = FALSE
    /\ ws_complete = FALSE
    /\ ws_conns = [c \in WsClients |-> NoConn]
    /\ ws_last = [event |-> "boot", conn |-> 0, ret |-> ""]
    /\ ws_recv = NothingReceived

NextWeb ==
    \/ \E ok \in BOOLEAN : WsMain(ok)
    \/ \E c \in WsClients : WsAccept(c)
    \/ WsAcceptFailed
    \/ \E c \in WsClients, segment \in Segments, sendable \in BOOLEAN, stale \in StaleBytes,
          close_ok \in BOOLEAN : WsRecv(c, segment, sendable, stale, close_ok)
    \/ \E c \in WsClients, close_ok \in BOOLEAN : WsSent(c, close_ok)
    \/ \E c \in WsClients : WsReset(c)

(***************************************************************************)
(* Blink (src/blink/blink.cpp)                                             *)
(***************************************************************************)
MaxBlinkSecs == 120

\* main: if (cyw43_arch_init()) { printf("WiFi init failed\n"); return -1; }
BlkArchInit(ok) ==
    /\ blk_pc = "arch_init"
    /\ IF ok THEN blk_pc' = "led_on" /\ UNCHANGED blk_ret
             ELSE blk_pc' = "returned" /\ blk_ret' = -1
    /\ UNCHANGED <<blk_led, blk_secs, viewVars, webVars, clockVars, scanVars, uniVars, picoVars, shellVars,
                   httpVars>>

\* main: cyw43_arch_gpio_put(CYW43_WL_GPIO_LED_PIN, 1);
BlkLedOn ==
    /\ blk_pc = "led_on"
    /\ blk_led' = TRUE
    /\ blk_pc' = "loop"
    /\ UNCHANGED <<blk_ret, blk_secs, viewVars, webVars, clockVars, scanVars, uniVars, picoVars, shellVars,
                   httpVars>>

\* a loop that switches the LED off again
BlkSleep_Off ==
    /\ blk_pc = "loop"
    /\ blk_secs < MaxBlinkSecs
    /\ blk_secs' = blk_secs + 1
    /\ blk_led' = FALSE
    /\ UNCHANGED <<blk_pc, blk_ret, viewVars, webVars, clockVars, scanVars, uniVars, picoVars, shellVars,
                   httpVars>>

\* main: while (true) { sleep_ms(1000); }
BlkSleep ==
    /\ blk_pc = "loop"
    /\ blk_secs < MaxBlinkSecs
    /\ blk_secs' = blk_secs + 1
    /\ UNCHANGED <<blk_pc, blk_led, blk_ret, viewVars, webVars, clockVars, scanVars, uniVars, picoVars,
                   shellVars, httpVars>>

InitBlink ==
    /\ blk_pc = "arch_init"
    /\ blk_led = FALSE
    /\ blk_ret = 0
    /\ blk_secs = 0

NextBlink ==
    \/ \E ok \in BOOLEAN : BlkArchInit(ok)
    \/ BlkLedOn
    \/ BlkSleep

\* ---------------------------------------------------------------------------
\* Shell OS: the system log (log_message, view_log)
\*
\* The log is looked at on its own: log_message is called from all over the
\* two programs, and what it stores depends on nothing but the order of the
\* calls.  A message is identified by the number of the call that logged it;
\* the time prefix snprintf puts in front of it is left out, and every message
\* of the programs fits the 128 bytes of an entry with its prefix.
\* ---------------------------------------------------------------------------
MAX_LOG_ENTRIES == 50

MaxLogCalls == 105

NoEntry == 0

\* log_message: write at log_index, advance it round the array, count up to
\* the size of the array
log_message(entries, index, count, msg) ==
    [entries |-> [entries EXCEPT ![index] = msg],
     index   |-> (index + 1) % MAX_LOG_ENTRIES,
     count   |-> IF count < MAX_LOG_ENTRIES THEN count + 1 ELSE count]

view_log_v1_FromZero(entries, index, count) ==
    [i \in 1..count |-> entries[(0 + (i - 1)) % MAX_LOG_ENTRIES]]

\* view_log of v1: from log_index when the array is full, from 0 otherwise
view_log_v1(entries, index, count) ==
    LET start == IF count = MAX_LOG_ENTRIES THEN index ELSE 0
    IN  [i \in 1..count |-> entries[(start + (i - 1)) % MAX_LOG_ENTRIES]]

\* view_log of v2: from log_index - log_count round the array; the line
\* "No log entries yet" of an empty log is not an entry
view_log_v2(entries, index, count) ==
    IF count = 0
    THEN << >>
    ELSE LET start == (index - count + MAX_LOG_ENTRIES) % MAX_LOG_ENTRIES
         IN  [i \in 1..count |-> entries[(start + (i - 1)) % MAX_LOG_ENTRIES]]

\* one call of log_message, anywhere in the program
LogMessage ==
    /\ log_n < MaxLogCalls
    /\ LET r == log_message(log_entries, log_index, log_count, log_n + 1)
       IN  /\ log_entries' = r.entries
           /\ log_index' = r.index
           /\ log_count' = r.count
    /\ log_n' = log_n + 1
    /\ UNCHANGED <<log_printed, storeVars, tickVars, ringVars, raceVars>>
    /\ UNCHANGED <<scanVars, uniVars, picoVars, shellVars, httpVars, clockVars, webVars,
                   blinkVars>>

\* the command "log" (v2) or the settings entry "View Log" (v1)
ViewLog ==
    /\ log_printed' = [n     |-> log_n,
                       lines |-> IF os_version = 1
                                 THEN view_log_v1(log_entries, log_index, log_count)
                                 ELSE view_log_v2(log_entries, log_index, log_count)]
    /\ UNCHANGED <<log_entries, log_index, log_count, log_n, storeVars, tickVars, ringVars, raceVars>>
    /\ UNCHANGED <<scanVars, uniVars, picoVars, shellVars, httpVars, clockVars, webVars,
                   blinkVars>>

InitLog ==
    /\ log_entries = [i \in 0..(MAX_LOG_ENTRIES - 1) |-> NoEntry]
    /\ log_index = 0
    /\ log_count = 0
    /\ log_n = 0
    /\ log_printed = [n |-> 0, lines |-> << >>]

NextLog ==
    \/ LogMessage
    \/ ViewLog

\* ---------------------------------------------------------------------------
\* Shell OS: what is kept in flash and what is kept in RAM
\* (init_filesystem, wifi.cfg, todos, reboot)
\*
\* Strings are sequences of characters.  read_line keeps the characters 32..126
\* only, so no typed string holds a newline or a NUL.  The shell's file commands
\* can rewrite any file; of them only "delete wifi.cfg" is followed here.
\* ---------------------------------------------------------------------------
CRED_CHARS == 63

CFG_BUF_CHARS == 127

TODO_CHARS == 99

NoFile == "none"

NoCreds == [ssid |-> << >>, pass |-> << >>, file |-> "none"]

Ssid63 == [i \in 1..CRED_CHARS |-> IF i = 4 THEN " " ELSE "s"]

Pass63 == [i \in 1..CRED_CHARS |-> IF i = 1 THEN "#" ELSE "p"]

TypedLong == [i \in 1..(CRED_CHARS + 7) |-> "L"]

TypedSsids == { << >>, <<"n", "e", "t", " ", "1">>, Ssid63, TypedLong }

TypedPasswords == { << >>, <<"p", " ", "w">>, Pass63 }

TodoTexts == { << >>, <<"m", "i", "l", "k">> }

TypedNumbers == { <<"1">>, <<"2">>, <<"3">>, <<"x">> }

NoTodo == [text |-> << >>, completed |-> FALSE, active |-> FALSE]

NoTodos == <<NoTodo, NoTodo>>

\* position of the first "\n" of buf, 0 when there is none (strchr)
FirstNewline(buf) ==
    IF \E i \in 1..Len(buf) : buf[i] = "\n"
    THEN CHOOSE i \in 1..Len(buf) : buf[i] = "\n" /\ \A j \in 1..(i - 1) : buf[j] # "\n"
    ELSE 0

\* snprintf(buf, 128, "%s\n%s", wifi_ssid, wifi_password) and the write of
\* strlen(buf) bytes (v1: of the returned length, the same for these lengths)
save_wifi_cfg(ssid, pass) == Take(ssid \o <<"\n">> \o pass, CFG_BUF_CHARS)

load_wifi_cfg_NoSplit(file, ssid0, pass0) ==
    LET buf == Take(file, CFG_BUF_CHARS)
    IN  [ssid |-> IF Len(buf) <= CRED_CHARS THEN buf ELSE ssid0, pass |-> pass0]

\* boot_sequence, "Load WiFi config": read up to 127 bytes, cut at the first
\* newline, copy each half when it fits its 64-byte array
load_wifi_cfg(file, ssid0, pass0) ==
    LET buf == Take(file, CFG_BUF_CHARS)
        nl  == FirstNewline(buf)
    IN  IF Len(buf) = 0 \/ nl = 0
        THEN [ssid |-> ssid0, pass |-> pass0]
        ELSE LET s == SubSeq(buf, 1, nl - 1)
                 p == SubSeq(buf, nl + 1, Len(buf))
             IN  [ssid |-> IF Len(s) <= CRED_CHARS THEN s ELSE ssid0,
                  pass |-> IF Len(p) <= CRED_CHARS THEN p ELSE pass0]

init_filesystem_MountOnly(fl, format_ok, mount2_ok) ==
    IF fl = "lfs"
    THEN [ops |-> <<"mount_ok">>, flash |-> fl, mounted |-> TRUE, erased |-> FALSE]
    ELSE [ops |-> <<"mount_err", "mount_err">>, flash |-> fl, mounted |-> FALSE,
          erased |-> FALSE]

\* init_filesystem: lfs_mount; on an error lfs_format and, when that worked,
\* lfs_mount again.  The first mount works exactly on a flash that holds a
\* filesystem; the results of lfs_format and of the second mount are the
\* library's.
init_filesystem(fl, format_ok, mount2_ok) ==
    IF fl = "lfs"
    THEN [ops |-> <<"mount_ok">>, flash |-> fl, mounted |-> TRUE, erased |-> FALSE]
    ELSE IF ~format_ok
         THEN [ops |-> <<"mount_err", "format_err">>, flash |-> "blank",
               mounted |-> FALSE, erased |-> TRUE]
         ELSE [ops |-> <<"mount_err", "format_ok",
                         IF mount2_ok THEN "mount_ok" ELSE "mount_err">>,
               flash |-> "lfs", mounted |-> mount2_ok, erased |-> TRUE]

\* boot_sequence: init_filesystem, then the load of wifi.cfg
BootSequence(format_ok, mount2_ok) ==
    /\ st_pc = "boot"
    /\ LET r    == init_filesystem(flash, format_ok, mount2_ok)
           file == IF r.erased THEN NoFile ELSE cfg_file
           c    == IF r.mounted /\ file # NoFile
                   THEN load_wifi_cfg(file, wifi_ssid, wifi_password)
                   ELSE [ssid |-> wifi_ssid, pass |-> wifi_password]
       IN  /\ fs_ops' = r.ops
           /\ flash' = r.flash
           /\ fs_mounted' = r.mounted
           /\ cfg_file' = file
           /\ cfg_saved' = IF r.erased
                           THEN NoCreds
                           ELSE IF r.mounted /\ file # NoFile
                                THEN [cfg_saved EXCEPT !.file = "loaded"]
                                ELSE cfg_saved
           /\ wifi_ssid' = c.ssid
           /\ wifi_password' = c.pass
    /\ st_pc' = "shell"
    /\ todos_before' = todos
    /\ UNCHANGED <<todos, logVars, tickVars, ringVars, raceVars>>
    /\ UNCHANGED <<scanVars, uniVars, picoVars, shellVars, httpVars, clockVars, webVars,
                   blinkVars>>

\* v1, settings_menu "1": the credentials are copied and saved as typed
SettingsWifi(ssid, pass) ==
    /\ st_pc = "shell" /\ os_version = 1
    /\ wifi_ssid' = Take(ssid, CRED_CHARS)
    /\ wifi_password' = Take(pass, CRED_CHARS)
    /\ IF fs_mounted
       THEN /\ cfg_file' = save_wifi_cfg(wifi_ssid', wifi_password')
            /\ cfg_saved' = [ssid |-> ssid, pass |-> pass, file |-> "written"]
       ELSE UNCHANGED <<cfg_file, cfg_saved>>
    /\ UNCHANGED <<flash, fs_mounted, fs_ops, todos, todos_before, st_pc, logVars, tickVars, ringVars, raceVars>>
    /\ UNCHANGED <<scanVars, uniVars, picoVars, shellVars, httpVars, clockVars, webVars,
                   blinkVars>>

\* v2, connect_wifi: an empty SSID is refused; the credentials are copied, and
\* saved when one of the three connection attempts returned 0
ConnectWifi(ssid, pass, result) ==
    /\ st_pc = "shell" /\ os_version = 2
    /\ IF Len(ssid) = 0
       THEN UNCHANGED <<wifi_ssid, wifi_password, cfg_file, cfg_saved>>
       ELSE /\ wifi_ssid' = Take(ssid, CRED_CHARS)
            /\ wifi_password' = Take(pass, CRED_CHARS)
            /\ IF result = 0 /\ fs_mounted
               THEN /\ cfg_file' = save_wifi_cfg(wifi_ssid', wifi_password')
                    /\ cfg_saved' = [ssid |-> ssid, pass |-> pass, file |-> "written"]
               ELSE UNCHANGED <<cfg_file, cfg_saved>>
    /\ UNCHANGED <<flash, fs_mounted, fs_ops, todos, todos_before, st_pc, logVars, tickVars, ringVars, raceVars>>
    /\ UNCHANGED <<scanVars, uniVars, picoVars, shellVars, httpVars, clockVars, webVars,
                   blinkVars>>

\* v2, settings_menu "3": Clear WiFi credentials
SettingsClear ==
    /\ st_pc = "shell" /\ os_version = 2
    /\ wifi_ssid' = << >>
    /\ wifi_password' = << >>
    /\ IF fs_mounted
       THEN cfg_file' = NoFile /\ cfg_saved' = NoCreds
       ELSE UNCHANGED <<cfg_file, cfg_saved>>
    /\ UNCHANGED <<flash, fs_mounted, fs_ops, todos, todos_before, st_pc, logVars, tickVars, ringVars, raceVars>>
    /\ UNCHANGED <<scanVars, uniVars, picoVars, shellVars, httpVars, clockVars, webVars,
                   blinkVars>>

\* v2, settings_menu "4" confirmed with "yes": unmount, format, mount; the
\* results are not looked at
SettingsFormat(format_ok) ==
    /\ st_pc = "shell" /\ os_version = 2
    /\ flash' = IF format_ok THEN "lfs" ELSE "blank"
    /\ fs_mounted' = format_ok
    /\ cfg_file' = NoFile
    /\ cfg_saved' = NoCreds
    /\ UNCHANGED <<fs_ops, wifi_ssid, wifi_password, todos, todos_before, st_pc, logVars, tickVars, ringVars, raceVars>>
    /\ UNCHANGED <<scanVars, uniVars, picoVars, shellVars, httpVars, clockVars, webVars,
                   blinkVars>>

\* "delete wifi.cfg" (delete_file)
CmdDeleteFile ==
    /\ st_pc = "shell" /\ fs_mounted /\ cfg_file # NoFile
    /\ cfg_file' = NoFile
    /\ cfg_saved' = NoCreds
    /\ UNCHANGED <<flash, fs_mounted, fs_ops, wifi_ssid, wifi_password, todos, todos_before,
                   st_pc, logVars, tickVars, ringVars, raceVars>>
    /\ UNCHANGED <<scanVars, uniVars, picoVars, shellVars, httpVars, clockVars, webVars,
                   blinkVars>>

\* todo_app, a text typed at "Add": v1 writes it to the slot chosen with "1" or
\* "2", empty or not; v2 writes it to the first free slot and refuses an empty
\* text
TodoAdd(choice, text) ==
    /\ st_pc = "shell"
    /\ LET new == [text |-> Take(text, TODO_CHARS), completed |-> FALSE, active |-> TRUE]
           free == {i \in 1..2 : ~todos[i].active}
       IN  IF os_version = 1
           THEN todos' = [todos EXCEPT ![choice] = new]
           ELSE IF free = {} \/ Len(text) = 0
                THEN UNCHANGED todos
                ELSE todos' = [todos EXCEPT ![IF 1 \in free THEN 1 ELSE 2] = new]
    /\ UNCHANGED <<flash, fs_mounted, fs_ops, cfg_file, cfg_saved, wifi_ssid, wifi_password,
                   todos_before, st_pc, logVars, tickVars, ringVars, raceVars>>
    /\ UNCHANGED <<scanVars, uniVars, picoVars, shellVars, httpVars, clockVars, webVars,
                   blinkVars>>

\* todo_app, "Mark complete" (v1 "3", v2 "2"): toggles an active task
TodoToggle(num) ==
    /\ st_pc = "shell"
    /\ LET idx == atoi(num) - 1
       IN  IF idx >= 0 /\ idx < 2 /\ todos[idx + 1].active
           THEN todos' = [todos EXCEPT ![idx + 1].completed = ~todos[idx + 1].completed]
           ELSE UNCHANGED todos
    /\ UNCHANGED <<flash, fs_mounted, fs_ops, cfg_file, cfg_saved, wifi_ssid, wifi_password,
                   todos_before, st_pc, logVars, tickVars, ringVars, raceVars>>
    /\ UNCHANGED <<scanVars, uniVars, picoVars, shellVars, httpVars, clockVars, webVars,
                   blinkVars>>

\* todo_app, "Delete" (v1 "4", v2 "3"): v1 also clears completed
TodoDelete(num) ==
    /\ st_pc = "shell"
    /\ LET idx == atoi(num) - 1
       IN  IF idx >= 0 /\ idx < 2 /\ todos[idx + 1].active
           THEN todos' = [todos EXCEPT ![idx + 1] =
                            [text |-> << >>,
                             completed |-> IF os_version = 1 THEN FALSE ELSE @.completed,
                             active |-> FALSE]]
           ELSE UNCHANGED todos
    /\ UNCHANGED <<flash, fs_mounted, fs_ops, cfg_file, cfg_saved, wifi_ssid, wifi_password,
                   todos_before, st_pc, logVars, tickVars, ringVars, raceVars>>
    /\ UNCHANGED <<scanVars, uniVars, picoVars, shellVars, httpVars, clockVars, webVars,
                   blinkVars>>

\* "reboot": watchdog_enable(1, 1) resets the chip; the statics get their
\* initial values again, the flash keeps its contents
Reboot ==
    /\ st_pc = "shell"
    /\ st_pc' = "boot"
    /\ todos_before' = todos
    /\ todos' = NoTodos
    /\ wifi_ssid' = << >>
    /\ wifi_password' = << >>
    /\ fs_mounted' = FALSE
    /\ fs_ops' = << >>
    /\ UNCHANGED <<flash, cfg_file, cfg_saved, logVars, tickVars, ringVars, raceVars>>
    /\ UNCHANGED <<scanVars, uniVars, picoVars, shellVars, httpVars, clockVars, webVars,
                   blinkVars>>

\* first power-up: nothing in the filesystem region of the flash
InitStore ==
    /\ flash = "blank"
    /\ fs_mounted = FALSE
    /\ fs_ops = << >>
    /\ cfg_file = NoFile
    /\ cfg_saved = NoCreds
    /\ wifi_ssid = << >>
    /\ wifi_password = << >>
    /\ todos = NoTodos
    /\ todos_before = NoTodos
    /\ st_pc = "boot"

NextStore ==
    \/ \E format_ok, mount2_ok \in BOOLEAN : BootSequence(format_ok, mount2_ok)
    \/ \E ssid \in TypedSsids, pass \in TypedPasswords : SettingsWifi(ssid, pass)
    \/ \E ssid \in TypedSsids, pass \in TypedPasswords, result \in {0, -1} :
           ConnectWifi(ssid, pass, result)
    \/ SettingsClear
    \/ \E format_ok \in BOOLEAN : SettingsFormat(format_ok)
    \/ CmdDeleteFile
    \/ \E choice \in 1..2, text \in TodoTexts : TodoAdd(choice, text)
    \/ \E num \in TypedNumbers : TodoToggle(num)
    \/ \E num \in TypedNumbers : TodoDelete(num)
    \/ Reboot

\* ---------------------------------------------------------------------------
\* ASCII clock: the clock loop on its own, started from a date and time that
\* an NTP reply set before the loop began (or that the loop has ticked to)
\* ---------------------------------------------------------------------------
\* <<day number, second of the day>> of the starts: an ordinary second, the
\* ends of a minute, an hour, a Sunday, a Saturday, of months of 30 and 31
\* days, of 28 February 2026, 2028, 2000 and 2100, of 29 February 2028, of a
\* year, and the second before the end of a year
StartTimes ==
    { <<20485, 38880>>, <<20527, 43259>>, <<20527, 46799>>, <<20527, 86399>>,
      <<20526, 86399>>, <<20573, 86399>>, <<20484, 86399>>, <<20512, 86399>>,
      <<21242, 86399>>, <<21243, 86399>>, <<11015, 86399>>, <<47540, 86399>>,
      <<20818, 86399>>, <<20818, 86398>> }

\* main has taken the "synced" path and reached the loop
InitClockLoop ==
    /\ tk_start \in StartTimes
    /\ clk_pc = "display"
    /\ current_time = gm_datetime(tk_start[1], tk_start[2])
    /\ time_synced = TRUE
    /\ wait_i = 1
    /\ ntp_state = [pcb |-> TRUE, sent |-> TRUE]
    /\ ntp_replies = 1
    /\ led_log = << <<2, 300, 300>>, <<5, 80, 80>> >>
    /\ clk_path = "synced"
    /\ clk_reply = [arrived |-> TRUE, time |-> gm_datetime(tk_start[1], tk_start[2]),
                    pc |-> "wait", ticks |-> 0, at |-> tk_start]
    /\ disp = Blank
    /\ first_shown = [done |-> FALSE, time |-> Blank.time, source |-> ""]
    /\ ticks = 0

\* the loop of main: display_clock, sleep_until, tick_time; no further reply
NextClockLoop ==
    \/ DisplayRead
    \/ DisplaySource
    \/ ClkSleep
    \/ ClkTick

\* ---------------------------------------------------------------------------
\* Unified system: the output ring buffer byte by byte
\* (output_clear, output_write, output_read_all)
\*
\* The source's OUTPUT_BUFFER_SIZE is 16384; the ring is followed here at a
\* size at which a few writes wrap it and overflow it.  Nothing in the three
\* functions depends on the size except through "% OUTPUT_BUFFER_SIZE".  A
\* byte is identified by its number in the order of writing.
\* ---------------------------------------------------------------------------
OUTPUT_BUFFER_SIZE == 5

MaxRingBytes == 14

NoByte == 0

\* output_clear
output_clear(buf) == [buf EXCEPT !.write_pos = 0, !.read_pos = 0, !.overflow = FALSE]

output_write_char_NoDrop(buf, c) ==
    [buf EXCEPT !.buffer[buf.write_pos] = c,
                !.write_pos = (buf.write_pos + 1) % OUTPUT_BUFFER_SIZE]

\* output_write, the body of the loop: store the byte, advance write_pos, and
\* when it has caught up with read_pos drop the oldest byte
output_write_char(buf, c) ==
    LET w == (buf.write_pos + 1) % OUTPUT_BUFFER_SIZE
    IN  IF w = buf.read_pos
        THEN [buf EXCEPT !.buffer[buf.write_pos] = c, !.write_pos = w, !.overflow = TRUE,
                         !.read_pos = (buf.read_pos + 1) % OUTPUT_BUFFER_SIZE]
        ELSE [buf EXCEPT !.buffer[buf.write_pos] = c, !.write_pos = w]

\* output_write: for (i = 0; i < strlen(str); i++)
RECURSIVE output_write_str(_, _, _)
output_write_str(buf, str, i) ==
    IF i > Len(str) THEN buf
    ELSE output_write_str(output_write_char(buf, str[i]), str, i + 1)

\* output_read_all: while (read_pos != write_pos && count < max_len - 1)
RECURSIVE output_read_all(_, _, _)
output_read_all(buf, dest, max_len) ==
    IF buf.read_pos # buf.write_pos /\ Len(dest) < max_len - 1
    THEN output_read_all([buf EXCEPT !.read_pos = (buf.read_pos + 1) % OUTPUT_BUFFER_SIZE],
                         Append(dest, buf.buffer[buf.read_pos]), max_len)
    ELSE [buf |-> buf, dest |-> dest, count |-> Len(dest)]

\* the last n elements of seq, all of them when it has no more than n
LastOf(seq, n) == SubSeq(seq, Len(seq) - Min(n, Len(seq)) + 1, Len(seq))

\* output_write(str) with a string of len bytes
RingWrite(len) ==
    /\ rb_n + len <= MaxRingBytes
    /\ LET str == [i \in 1..len |-> rb_n + i]
       IN  /\ rb' = output_write_str(rb, str, 1)
           /\ rb_pending' = LastOf(rb_pending \o str, OUTPUT_BUFFER_SIZE)
    /\ rb_n' = rb_n + len
    /\ UNCHANGED <<rb_read, logVars, storeVars, tickVars, raceVars>>
    /\ UNCHANGED <<scanVars, uniVars, picoVars, shellVars, httpVars, clockVars, webVars,
                   blinkVars>>

\* tcp_server_recv, "GET /output" and "POST /cmd": char output[OUTPUT_BUFFER_SIZE];
\* output_read_all(output, sizeof(output))
RingRead ==
    /\ LET r == output_read_all(rb, << >>, OUTPUT_BUFFER_SIZE)
       IN  /\ rb' = r.buf
           /\ rb_read' = [count |-> r.count, dest |-> r.dest]
    /\ rb_pending' = << >>
    /\ UNCHANGED <<rb_n, logVars, storeVars, tickVars, raceVars>>
    /\ UNCHANGED <<scanVars, uniVars, picoVars, shellVars, httpVars, clockVars, webVars,
                   blinkVars>>

\* the command "clear" and main: output_clear()
RingClear ==
    /\ rb' = output_clear(rb)
    /\ rb_pending' = << >>
    /\ UNCHANGED <<rb_n, rb_read, logVars, storeVars, tickVars, raceVars>>
    /\ UNCHANGED <<scanVars, uniVars, picoVars, shellVars, httpVars, clockVars, webVars,
                   blinkVars>>

InitRing ==
    /\ rb = [buffer |-> [i \in 0..(OUTPUT_BUFFER_SIZE - 1) |-> NoByte],
             write_pos |-> 0, read_pos |-> 0, overflow |-> FALSE]
    /\ rb_n = 0
    /\ rb_pending = << >>
    /\ rb_read = [count |-> 0, dest |-> << >>]

NextRing ==
    \/ \E len \in 0..(OUTPUT_BUFFER_SIZE + 1) : RingWrite(len)
    \/ RingRead
    \/ RingClear

\* ---------------------------------------------------------------------------
\* Shell OS v2: log_message called by the shell while the network stack calls
\* it too
\*
\* The program never calls cyw43_arch_poll, so the network stack runs from the
\* radio driver's background interrupt on core 0: http_recv_callback,
\* serve_file and ntp_recv_callback, and the log_message calls in them, run to
\* their end between any two instructions of the shell.  The shell's own call
\* is followed store by store and load by load.  ntp_sync_task on core 1 calls
\* sync_ntp_time, which does not log; the reply it asks for is logged by
\* ntp_recv_callback.
\* ---------------------------------------------------------------------------
MaxRaceCalls == 5

NoCall == [msg |-> 0, slot |-> 0]

\* log_message in the shell: snprintf(log_entries[log_index], ...)
ShellLogWrite ==
    /\ lg_pc = "idle"
    /\ log_n < MaxRaceCalls
    /\ log_n' = log_n + 1
    /\ log_entries' = [log_entries EXCEPT ![log_index] = log_n + 1]
    /\ lg_call' = [msg |-> log_n + 1, slot |-> log_index]
    /\ lg_pc' = "written"
    /\ UNCHANGED <<log_index, log_count, log_printed, lg_reg, storeVars, tickVars, ringVars>>
    /\ UNCHANGED <<scanVars, uniVars, picoVars, shellVars, httpVars, clockVars, webVars,
                   blinkVars>>

\* log_index = (log_index + 1) % MAX_LOG_ENTRIES, the load
ShellLogLoadIndex ==
    /\ lg_pc = "written"
    /\ lg_reg' = log_index
    /\ lg_pc' = "index_loaded"
    /\ UNCHANGED <<logVars, lg_call, storeVars, tickVars, ringVars>>
    /\ UNCHANGED <<scanVars, uniVars, picoVars, shellVars, httpVars, clockVars, webVars,
                   blinkVars>>

\* log_index = (log_index + 1) % MAX_LOG_ENTRIES, the store
ShellLogStoreIndex ==
    /\ lg_pc = "index_loaded"
    /\ log_index' = (lg_reg + 1) % MAX_LOG_ENTRIES
    /\ lg_pc' = "index_stored"
    /\ UNCHANGED <<log_entries, log_count, log_n, log_printed, lg_reg, lg_call, storeVars,
                   tickVars, ringVars>>
    /\ UNCHANGED <<scanVars, uniVars, picoVars, shellVars, httpVars, clockVars, webVars,
                   blinkVars>>

\* if (log_count < MAX_LOG_ENTRIES) log_count++, the load
ShellLogLoadCount ==
    /\ lg_pc = "index_stored"
    /\ lg_reg' = log_count
    /\ lg_pc' = "count_loaded"
    /\ UNCHANGED <<logVars, lg_call, storeVars, tickVars, ringVars>>
    /\ UNCHANGED <<scanVars, uniVars, picoVars, shellVars, httpVars, clockVars, webVars,
                   blinkVars>>

\* if (log_count < MAX_LOG_ENTRIES) log_count++, the store
ShellLogStoreCount ==
    /\ lg_pc = "count_loaded"
    /\ log_count' = IF lg_reg < MAX_LOG_ENTRIES THEN lg_reg + 1 ELSE log_count
    /\ lg_pc' = "idle"
    /\ UNCHANGED <<log_entries, log_index, log_n, log_printed, lg_reg, lg_call, storeVars,
                   tickVars, ringVars>>
    /\ UNCHANGED <<scanVars, uniVars, picoVars, shellVars, httpVars, clockVars, webVars,
                   blinkVars>>

\* http_recv_callback, serve_file, ntp_recv_callback: log_message from the
\* network stack, a whole call between two steps of the shell
CallbackLog ==
    /\ log_n < MaxRaceCalls
    /\ LET r == log_message(log_entries, log_index, log_count, log_n + 1)
       IN  /\ log_entries' = r.entries
           /\ log_index' = r.index
           /\ log_count' = r.count
    /\ log_n' = log_n + 1
    /\ UNCHANGED <<log_printed, raceVars, storeVars, tickVars, ringVars>>
    /\ UNCHANGED <<scanVars, uniVars, picoVars, shellVars, httpVars, clockVars, webVars,
                   blinkVars>>

InitLogRace ==
    /\ lg_pc = "idle"
    /\ lg_reg = 0
    /\ lg_call = NoCall

NextLogRace ==
    \/ ShellLogWrite
    \/ ShellLogLoadIndex
    \/ ShellLogStoreIndex
    \/ ShellLogLoadCount
    \/ ShellLogStoreCount
    \/ CallbackLog

Init ==
    /\ InitScanner /\ InitUnified /\ InitPico /\ InitShell(2) /\ InitHttp /\ InitClock
    /\ InitWeb /\ InitBlink /\ InitLog /\ InitStore /\ InitRing /\ InitLogRace

\* Either version of the Shell OS is flashed.
InitShellOS ==
    /\ InitScanner /\ InitUnified /\ InitPico /\ (\E v \in {1, 2} : InitShell(v)) /\ InitHttp
    /\ InitClock /\ InitWeb /\ InitBlink /\ InitLog /\ InitStore /\ InitRing /\ InitLogRace

\* The Shell OS: the shell and core 1, and in v2 the HTTP server's callbacks.
NextShellOS == NextShell \/ NextHttp

SpecShell == InitShellOS /\ [][NextShellOS]_vars

SpecUnified == Init /\ [][NextUnified]_vars

\* The two to-do programs, each on its own board; the unified system is given the
\* commands of its TO-DO app and the two that start and stop it.
NextTodo ==
    \/ NextPico
    \/ CmdRun("todo")
    \/ CmdStop
    \/ \E task \in TaskInputs : CmdAdd(task)
    \/ \E n \in TaskNumbers : CmdDone(n)
    \/ \E n \in TaskNumbers : CmdDel(n)
    \/ CmdList

SpecTodo == Init /\ [][NextTodo]_vars

SpecScanner == Init /\ [][NextScanner]_vars

\* The scanner with one client that stays connected and sends a SCAN only when no
\* scan is running and no connection is outstanding; every outstanding connection is
\* eventually answered by the connected or the error callback.
NextScannerWide ==
    \/ AcceptCallback(1)
    \/ \E r \in WideRanges :
          ~scanner.scanning /\ scanner.pending = << >> /\ RecvScan(1, r)
    \/ \E i \in 1..MaxPending : ScanConnected(i)
    \/ \E i \in 1..MaxPending : ScanError(i)

ScanAnswered == \E i \in 1..MaxPending : ScanConnected(i) \/ ScanError(i)

SpecScannerWide == Init /\ [][NextScannerWide]_vars /\ WF_vars(ScanAnswered)

(***************************************************************************)
(* Claims                                                                  *)
(***************************************************************************)

\* C1: scanning is sequential - in every reachable state at most one scan connection
\* attempt (a tcp_connect not yet answered) is outstanding.
C1_AtMostOneOutstanding == Len(scanner.pending) <= 1

\* C2: every accepted SCAN command, when every attempt is answered and the client stays
\* connected, eventually reaches finish_scan and reports end_port - start_port + 1 ports.
C2_ScanCompletes ==
    [](scanner.scanning =>
         <>(/\ ~scanner.scanning
            /\ scan_log.report.sent
            /\ scan_log.report.ports = scanner.end_port - scanner.start_port + 1))

\* C3: when a scan completes, each port of start_port..end_port was attempted exactly
\* once in ascending order and the reported open-port list holds exactly the ports whose
\* connect succeeded.
C3_ReportExact ==
    scan_log.report.sent =>
        /\ scan_log.report.once_each
        /\ scan_log.report.open = scan_log.report.succeeded

\* C4: only one app runs at a time - at most one of the three running flags is true,
\* and an app whose flag is true is the one recorded in current_app.
C4_OneAppRuns ==
    /\ Cardinality({a \in Apps : Running(a)}) <= 1
    /\ \A a \in Apps : Running(a) => current_app = a

\* C4 witness: "run blink" was given while the TO-DO app ran, and blink now runs.
C4_Witness ==
    /\ uni_last = [cmd |-> "run",
                   out |-> <<"TO-DO app stopped.", "=== LED BLINK APP STARTED ===">>]
    /\ blink_state.running

\* C10: in both to-do programs the task count stays in 0..2, and an Add issued while
\* two tasks exist is answered FULL / List full and changes no name, flag or count
\* (the unified system answers an "add" without a task name with its usage line instead).
C10_TodoBounded ==
    /\ [](cnt \in 0..2 /\ todo_state.count \in 0..2)
    /\ [][(pico_last' # pico_last /\ pico_last'.cmd = "2" /\ cnt = 2)
             => (pico_last'.out = "FULL" /\ UNCHANGED <<t1, t2, d1, d2, cnt>>)]_vars
    /\ [][(uni_last' # uni_last /\ uni_last'.cmd = "add" /\ TodoActive
               /\ todo_state.count = 2)
             => (uni_last'.out \in {<<"List full (max 2 tasks).">>, <<"Usage: add <task_name>">>}
                 /\ todo_state' = todo_state)]_vars

\* C10 witness: both programs hold two tasks and have just rejected an Add.
C10_Witness ==
    /\ cnt = 2 /\ pico_last = [cmd |-> "2", out |-> "FULL"]
    /\ todo_state.count = 2
    /\ uni_last = [cmd |-> "add", out |-> <<"List full (max 2 tasks).">>]

\* C5: active_connections always equals the number of accepted connections not yet
\* closed and stays within 0..MAX_HTTP_CONNECTIONS.
C5_ConnectionCount ==
    /\ active_connections = Cardinality(http_open)
    /\ active_connections \in 0..MAX_HTTP_CONNECTIONS

InWebDir(file) ==
    /\ Len(file) > Len(WebPrefix) + 1
    /\ SubSeq(file, 1, Len(WebPrefix) + 1) = WebPrefix \o Slash

\* C6: a GET for "/" is answered with /web/index.html, any other path P with the file
\* named "/web" followed by P, and the file sent always lies in the /web/ directory.
C6_DocumentRoot ==
    (http_last.event = "request" /\ http_last.status = 200) =>
        /\ http_last.filepath = (IF http_last.path = Slash THEN IndexFile
                                 ELSE WebPrefix \o http_last.path)
        /\ InWebDir(http_last.file)

\* C7: in both versions, while the ntp_sync process has not been stopped,
\* ntp_sync_task executes (on core 1).
C7_NtpTaskRuns ==
    \A i \in 1..Len(processes) :
        (processes[i].name = "ntp_sync" /\ processes[i].running) => core1 = "ntp_sync_task"


\* The ASCII clock.
SpecClock == Init /\ [][NextClock]_vars

\* What the first complete display showed
FallbackPaths == {"chip_failed", "wifi_failed", "no_socket", "timeout"}

\* C8: when main() went to manual_time (chip init failed, WiFi failed, no NTP socket, or no
\* reply within the wait), the clock's first display shows 2026-02-01 (day 6) 10:48:00 and
\* "Time source: MANUAL"; it shows "Time source: NTP" only with the time of a reply that arrived.
C8_TimeSource ==
    first_shown.done =>
        /\ clk_path \in FallbackPaths =>
              (first_shown.time = datetime_t(2026, 2, 1, 6, 10, 48, 0)
               /\ first_shown.source = "MANUAL")
        /\ first_shown.source = "NTP" =>
              (clk_reply.arrived /\ first_shown.time = clk_reply.time)

\* C9: when the clock loop starts after a fallback caused by the WiFi connection or by NTP
\* (no socket, no reply in time), the LED has emitted the long-blink pattern (3 x 500 ms).
C9_LongBlink ==
    (clk_pc \notin {"arch_init", "connect", "ntp_init", "ntp_request", "wait", "check",
                    "manual_time", "start_clock"}
     /\ clk_path \in {"wifi_failed", "no_socket", "timeout"})
        => \E i \in 1..Len(led_log) : led_log[i][1] = 3 /\ led_log[i][2] = 500

\* C11: in both to-do programs, deleting task 1 while two tasks exist leaves one task with
\* the name and done flag of the former task 2; deleting task 2 leaves task 1 as it was;
\* a Done or Del for a task number that does not exist changes no task, flag or count.
C11_DeleteShifts ==
    /\ [][(pico_last'.cmd = "4" /\ UNCHANGED uniVars) =>
            \A n \in TaskNumbers : PicoDel(n) =>
                /\ (n = 1 /\ cnt = 2) => (cnt' = 1 /\ t1' = t2 /\ d1' = d2)
                /\ (n = 2 /\ cnt = 2) => (cnt' = 1 /\ t1' = t1 /\ d1' = d1)
                /\ (n \notin 1..cnt) => UNCHANGED <<t1, t2, d1, d2, cnt>>]_vars
    /\ [][(pico_last'.cmd = "3" /\ UNCHANGED uniVars) =>
            \A n \in TaskNumbers : PicoDone(n) =>
                ((n \notin 1..cnt) => UNCHANGED <<t1, t2, d1, d2, cnt>>)]_vars
    /\ [][(TodoActive /\ uni_last'.cmd = "del" /\ UNCHANGED picoVars) =>
            \A n \in TaskNumbers : CmdDel(n) =>
                /\ (n = 1 /\ todo_state.count = 2) =>
                      /\ todo_state'.count = 1
                      /\ todo_state'.task1 = todo_state.task2
                      /\ todo_state'.done1 = todo_state.done2
                /\ (n = 2 /\ todo_state.count = 2) =>
                      /\ todo_state'.count = 1
                      /\ todo_state'.task1 = todo_state.task1
                      /\ todo_state'.done1 = todo_state.done1
                /\ (n \notin 1..todo_state.count) => todo_state' = todo_state]_vars
    /\ [][(TodoActive /\ uni_last'.cmd = "done" /\ UNCHANGED picoVars) =>
            \A n \in TaskNumbers : CmdDone(n) =>
                ((n \notin 1..todo_state.count) => todo_state' = todo_state)]_vars

\* C11 witness: in both programs task 2 (the long name, marked done) has just moved into
\* slot 1 by a delete of task 1.
C11_Witness ==
    /\ cnt = 1 /\ t1 = Take(LongName, TASK_CHARS) /\ d1 /\ pico_last = [cmd |-> "4", out |-> "OK"]
    /\ todo_state.count = 1 /\ todo_state.task1 = Take(LongName, TASK_CHARS) /\ todo_state.done1
    /\ uni_last = [cmd |-> "del", out |-> <<"Task 1 deleted.">>]

\* The "speed" arguments that are numbers within 50..5000, with their values
SpeedInRange == {<<<<"5", "0">>, 50>>, <<<<"5", "0", "0", "0">>, 5000>>, <<<<"2", "5", "0">>, 250>>}

\* C12: the blink interval is always within 50..5000 ms: blink_init sets 500, a "speed"
\* argument inside the range replaces it, and any other argument (below, above, not a
\* number, negative) is rejected with the interval unchanged.
C12_BlinkInterval ==
    /\ [](blink_state.interval_ms \in 50..5000)
    /\ [][CmdRun("blink") => blink_state'.interval_ms = 500]_vars
    /\ [][\A arg \in SpeedArgs : (BlinkActive /\ CmdSpeed(arg)) =>
            IF \E p \in SpeedInRange : p[1] = arg
            THEN \A p \in SpeedInRange : p[1] = arg => blink_state'.interval_ms = p[2]
            ELSE /\ blink_state' = blink_state
                 /\ uni_last'.out = <<"Speed must be between 50-5000ms.">>]_vars

\* C12 witness: the interval was set to 5000 and a later "speed" was rejected.
C12_Witness ==
    /\ blink_state.running /\ blink_state.interval_ms = 5000
    /\ uni_last = [cmd |-> "speed", out |-> <<"Speed must be between 50-5000ms.">>]

InSeq(x, seq) == \E i \in 1..Len(seq) : seq[i] = x

\* C13: every line written with output_write/output_printf (the welcome message, a
\* command's output) has been printed on the serial interface and is in the body of the
\* GET /output or POST /cmd response that read the buffer.
C13_BothInterfaces ==
    \A i \in 1..Len(uni_last.out) :
        /\ InSeq(uni_last.out[i], serial_log)
        /\ (output_buf = << >> => InSeq(uni_last.out[i], web_body))

\* The minimal web server; the blink program.
SpecWeb == Init /\ [][NextWeb]_vars

SpecBlink == Init /\ [][NextBlink]_vars

\* C14: when tcp_server_sent is called for a connection on which a response was written,
\* the server unregisters the connection's callbacks and closes it with tcp_close, or, if
\* tcp_close fails, aborts it with tcp_abort and returns ERR_ABRT.
C14_ClosedAfterSend ==
    [][\A c \in WsClients, close_ok \in BOOLEAN :
          (ws_conns[c].written /\ WsSent(c, close_ok)) =>
              /\ ~ws_conns'[c].recv /\ ~ws_conns'[c].sent
              /\ ws_conns'[c].pcb = (IF close_ok THEN "closed" ELSE "aborted")
              /\ ws_last'.ret = (IF close_ok THEN "ERR_OK" ELSE "ERR_ABRT")]_vars

\* C14 witness: a response was written on connection 1, the data was reported sent,
\* tcp_close failed and the connection was aborted.
C14_Witness ==
    /\ ws_last = [event |-> "sent", conn |-> 1, ret |-> "ERR_ABRT"]
    /\ ws_conns[1].written /\ ws_conns[1].pcb = "aborted"

\* C15: at most one accepted client connection is open at any time.
C15_OneClient == Cardinality({c \in WsClients : ws_conns[c].pcb = "open"}) <= 1

\* C20: once WiFi-chip initialisation has succeeded the LED is switched on, stays on and
\* the program stays in its loop; when it fails main returns -1 and the LED was never on.
C20_LedStaysOn ==
    /\ [](blk_pc = "loop" => blk_led)
    /\ [][blk_led => blk_led']_vars
    /\ [][blk_pc = "loop" => blk_pc' = "loop"]_vars
    /\ [][blk_pc = "led_on" => (blk_led' /\ blk_pc' = "loop")]_vars
    /\ [](blk_pc = "returned" => (blk_ret = -1 /\ ~blk_led))

\* C20 witness: the LED is on after some seconds in the loop.
C20_Witness == blk_pc = "loop" /\ blk_led /\ blk_secs >= 2

SpecLog == InitShellOS /\ [][NextLog]_vars

\* the messages of the calls n - k + 1 .. n, oldest first
LastLogged(n, k) == [i \in 1..k |-> n - k + i]

\* C16: after n calls of log_message, log_count is min(n, 50) and log_index is
\* n mod 50, and what view_log prints is the last min(n, 50) messages, oldest
\* first, in both versions.
C16_CircularLog ==
    /\ log_count = Min(log_n, MAX_LOG_ENTRIES)
    /\ log_index = log_n % MAX_LOG_ENTRIES
    /\ log_printed.lines = LastLogged(log_printed.n, Min(log_printed.n, MAX_LOG_ENTRIES))

C16_Witness ==
    /\ log_printed.n > 2 * MAX_LOG_ENTRIES
    /\ log_printed.n % MAX_LOG_ENTRIES # 0
    /\ Len(log_printed.lines) = MAX_LOG_ENTRIES

SpecStore == InitShellOS /\ [][NextStore]_vars

FormatCalled(ops) == \E i \in 1..Len(ops) : ops[i] \in {"format_ok", "format_err"}

FurtherMounts(ops) == Cardinality({i \in 2..Len(ops) : ops[i] \in {"mount_ok", "mount_err"}})

\* C17 as stated: at boot lfs_format is called if and only if the first mount
\* failed, and after a failed first mount exactly one further mount is attempted.
C17_FormatThenOneMount ==
    st_pc = "shell" =>
        /\ FormatCalled(fs_ops) <=> (fs_ops[1] = "mount_err")
        /\ (fs_ops[1] = "mount_err") => FurtherMounts(fs_ops) = 1

\* C17: at boot lfs_format is called if and only if the first mount failed; one
\* further mount is attempted when that format succeeded and none when it failed;
\* a filesystem that mounts at the first attempt is never formatted at boot.
C17_FormatOnMountFailure ==
    st_pc = "shell" =>
        /\ fs_ops[1] \in {"mount_ok", "mount_err"}
        /\ FormatCalled(fs_ops) <=> (fs_ops[1] = "mount_err")
        /\ FurtherMounts(fs_ops) = (IF \E i \in 1..Len(fs_ops) : fs_ops[i] = "format_ok"
                                    THEN 1 ELSE 0)
        /\ (fs_ops[1] = "mount_ok") => (fs_ops = <<"mount_ok">>)

\* C17 witness: a boot found no filesystem, formatted the flash and mounted it.
C17_Witness ==
    /\ st_pc = "shell"
    /\ fs_ops = <<"mount_err", "format_ok", "mount_ok">>
    /\ flash = "lfs" /\ fs_mounted

\* C18: a boot_sequence that finds the wifi.cfg written for typed credentials of
\* up to 63 characters each leaves exactly those credentials in wifi_ssid and
\* wifi_password, in both versions.
C18_CredentialsRoundTrip ==
    [][\A format_ok, mount2_ok \in BOOLEAN :
          BootSequence(format_ok, mount2_ok) =>
              ((/\ cfg_saved.file # "none"
                /\ Len(cfg_saved.ssid) <= CRED_CHARS
                /\ Len(cfg_saved.pass) <= CRED_CHARS)
               => (wifi_ssid' = cfg_saved.ssid /\ wifi_password' = cfg_saved.pass))]_vars

\* C18 witness: a boot has read back a 63-character SSID with a space in it and a
\* 63-character password.
C18_Witness ==
    /\ st_pc = "shell"
    /\ cfg_saved = [ssid |-> Ssid63, pass |-> Pass63, file |-> "loaded"]
    /\ wifi_ssid = Ssid63 /\ wifi_password = Pass63
    /\ cfg_file = Ssid63 \o <<"\n">> \o Pass63

\* C19: every task that was in the todo list when the chip was reset is in the
\* todo list after the boot that follows.
C19_TodosSurviveReboot ==
    [][\A format_ok, mount2_ok \in BOOLEAN :
          BootSequence(format_ok, mount2_ok) =>
              \A i \in 1..2 : todos_before[i].active => todos'[i] = todos_before[i]]_vars

InitTick ==
    /\ InitScanner /\ InitUnified /\ InitPico /\ InitShell(2) /\ InitHttp /\ InitClockLoop
    /\ InitWeb /\ InitBlink /\ InitLog /\ InitStore /\ InitRing /\ InitLogRace

SpecTick == InitTick /\ [][NextClockLoop]_vars

\* the date and time n seconds after the start <<day, second>>, by the calendar
SecondsAfter(start, n) ==
    gm_datetime(start[1] + ((start[2] + n) \div SECS_PER_DAY), (start[2] + n) % SECS_PER_DAY)

ValidTime(t) ==
    /\ t.sec \in 0..59 /\ t.min \in 0..59 /\ t.hour \in 0..23
    /\ t.month \in 1..12
    /\ t.day >= 1
    /\ t.day <= (IF t.month \in {4, 6, 9, 11} THEN 30
                 ELSE IF t.month # 2 THEN 31
                 ELSE IF t.year % 400 = 0 \/ (t.year % 4 = 0 /\ t.year % 100 # 0) THEN 29
                 ELSE 28)
    /\ t.dotw \in 0..6

BetweenTicks == clk_pc \in {"display", "sleep"}

\* C21: between two calls of tick_time the clock holds the start time plus one
\* calendar second per call and every field is in its range (after 28 February
\* comes the 29th in 2028 and 2000 and 1 March in 2026 and 2100, the day of the
\* week moves on at midnight), and every digit display_clock looks up in DIGITS
\* is in 0..9.
C21_TickOneSecond ==
    /\ BetweenTicks => /\ current_time = SecondsAfter(tk_start, ticks)
                       /\ ValidTime(current_time)
    /\ (BetweenTicks /\ ticks = 1 /\ tk_start = <<47540, 86399>>)
           => current_time = datetime_t(2100, 3, 1, 1, 0, 0, 0)
    /\ (BetweenTicks /\ ticks = 1 /\ tk_start = <<21242, 86399>>)
           => current_time = datetime_t(2028, 2, 29, 2, 0, 0, 0)
    /\ (BetweenTicks /\ ticks = 1 /\ tk_start = <<20818, 86399>>)
           => current_time = datetime_t(2027, 1, 1, 5, 0, 0, 0)
    /\ \A f \in {"hour", "min", "sec"} :
           disp.time[f] \div 10 \in 0..9 /\ disp.time[f] % 10 \in 0..9

\* C21 witness: the clock started at 2028-02-28 23:59:59 shows 2028-02-29 00:00:00.
C21_Witness ==
    /\ tk_start = <<21242, 86399>> /\ ticks = 1 /\ clk_pc = "sleep"
    /\ disp.time = datetime_t(2028, 2, 29, 2, 0, 0, 0)
    /\ disp.source = "NTP"

\* C22: a received segment that starts with GET is answered with one response,
\* the header block (status 200, Content-Length the byte length of html_content)
\* followed by html_content; for any other segment nothing is written; either
\* way the received bytes are acknowledged and the pbuf is freed once.
C22_GetResponse ==
    [][\A c \in WsClients, segment \in Segments \ {"closed"}, sendable \in BOOLEAN,
          stale \in StaleBytes, close_ok \in BOOLEAN :
          WsRecv(c, segment, sendable, stale, close_ok) =>
              /\ ws_recv'.wrote =
                    (IF Len(Payload(segment)) >= 3 /\ SubSeq(Payload(segment), 1, 3) = HTTP_GET
                     THEN <<"HTTP/1.1 ", 200, " OK\n", "Content-Length: ", 13, "\n",
                            "Content-Type: text/html; charset=utf-8\n", "Connection: close\n",
                            "\n">> \o html_content
                     ELSE << >>)
              /\ ws_recv'.recved = Len(Payload(segment))
              /\ ws_recv'.freed = 1]_vars

SpecRing == Init /\ [][NextRing]_vars

LateReply == clk_reply.arrived /\ clk_reply.pc \in ({"display", "sleep"} \cup TickLabels)

\* calls of tick_time that began after the reply
TicksAfterReply == ticks - clk_reply.ticks + (IF clk_reply.pc = "tick_sec" THEN 1 ELSE 0)

\* the times that are all of one origin: the manual time or the reply's time,
\* moved on by whole seconds
WholeTimes ==
    {[ManualTime EXCEPT !.sec = n] : n \in 0..MaxTicks}
        \cup {SecondsAfter(clk_reply.at, n) : n \in 0..MaxTicks}

\* C23 stored time: between two ticks after a late reply, current_time is the
\* reply's time plus one second per tick_time call begun after the reply.
C23_StoredTime ==
    (LateReply /\ BetweenTicks) => current_time = SecondsAfter(clk_reply.at, TicksAfterReply)

\* C23: after a late reply the clock holds the reply's time advanced by the
\* ticks executed after it, and every complete display shows a time of one
\* origin, never fields of the manual time next to fields of the reply.
C23_LateReply ==
    /\ C23_StoredTime
    /\ (LateReply /\ clk_pc = "sleep") => disp.time \in WholeTimes

SpecLogRace == Init /\ [][NextLogRace]_vars

\* C24: while the shell is inside log_message the slot it wrote still holds its
\* message, whatever log_message calls the network callbacks make meanwhile,
\* and once it is out log_index and log_count have advanced by one per call.
C24_OwnSlotPerCall ==
    /\ lg_pc # "idle" => log_entries[lg_call.slot] = lg_call.msg
    /\ lg_pc = "idle" => /\ log_index = log_n % MAX_LOG_ENTRIES
                         /\ log_count = Min(log_n, MAX_LOG_ENTRIES)

=============================================================================
